---- MODULE Spec2Model ----
(***************************************************************************)
(* Model of the request-dispatch engine of BunRouter (bun-common):        *)
(* BunRouter.setRoute, Router.use and BunRouter.handle with its three      *)
(* match caches, the middleware / terminal-callback loops, the per-call    *)
(* continuation object built by nextFnGenerator, and BunRouter.throwError. *)
(*                                                                         *)
(* A callback is a small program over the operations a handler can do to   *)
(* the engine: send the response, call next(...), suspend at an await,     *)
(* and finally return a value or throw.  The synchronous part of a         *)
(* callback runs atomically (JavaScript runs to completion); a callback    *)
(* suspended at an await resumes as a separate step.                       *)
(***************************************************************************)
EXTENDS Integers, Sequences, FiniteSets, TLC

\* ------------------------------------------------------------------ bounds
\* callbacks of one handle() call that may be suspended at an await at once
MaxPending == 1
\* length of the route tables on which the order of the candidates is checked
MaxSortRoutes == 3
\* not-found handlers registered on the http adapter
MaxNotFoundHandlers == 2
\* files of one multipart upload in one field, and the largest maxCount
MaxFiles == 3

\* ------------------------------------------------------------ value domains
NoHost == ""
\* a declared host, the same host as a client may spell it, and a host
\* pattern with a parameter for the subdomain
HostApi == "api.example.com"
HostApiUpper == "API.EXAMPLE.COM"
HostWild == ":sub.example.com"
NoMethod == ""
NoName == ""
NoPath == <<>>
\* a JavaScript value is <<type, payload>>
Value(type, payload) == <<type, payload>>
NoError == Value("undefined", "")

\* a request url and a route path are sequences of tokens
PathA == <<"/", "a">>
PathId == <<"/", ":id">>
PathIdRegexp == <<"/", ":id(a)">>
PathUnnamed == <<"/", "(a)">>
UrlA == <<"/", "a">>
UrlAQuery == <<"/", "a", "?", "q=1">>
UrlB == <<"/", "b">>
\* a named parameter, a named parameter with a regexp, an unnamed regexp group
ParamTokens == {":id"}
RegexpTokens == {":id(a)"}
UnnamedTokens == {"(a)"}
\* the path segments the regexp of a token accepts
RegexpAccepts == {"a"}

Requests ==
  { [host |-> NoHost, method |-> "GET", url |-> u] : u \in {UrlA, UrlAQuery} }

\* the routes registered: a global middleware with two callbacks, two path
\* middlewares, a static and a parameterised terminal route
GlobalMw == [host |-> NoHost, path |-> NoPath, method |-> NoMethod, name |-> NoName, callbacks |-> 2]
PathMw == [host |-> NoHost, path |-> PathA, method |-> NoMethod, name |-> "ws-handler", callbacks |-> 1]
PathMwId == [host |-> NoHost, path |-> PathId, method |-> NoMethod, name |-> NoName, callbacks |-> 1]
GetA == [host |-> NoHost, path |-> PathA, method |-> "GET", name |-> NoName, callbacks |-> 2]
GetId == [host |-> NoHost, path |-> PathId, method |-> "GET", name |-> NoName, callbacks |-> 1]
\* a second route for GET /a, as specific as the first
GetAOther == [host |-> NoHost, path |-> PathA, method |-> "GET", name |-> NoName, callbacks |-> 1]
\* terminal routes that differ in specificity: a declared host, a host
\* pattern, a parameter with a regexp, an unnamed regexp group
GetAHost == [host |-> HostApi, path |-> PathA, method |-> "GET", name |-> NoName, callbacks |-> 1]
GetAWild == [host |-> HostWild, path |-> PathA, method |-> "GET", name |-> NoName, callbacks |-> 1]
GetIdRegexp == [host |-> NoHost, path |-> PathIdRegexp, method |-> "GET", name |-> NoName, callbacks |-> 1]
GetUnnamed == [host |-> NoHost, path |-> PathUnnamed, method |-> "GET", name |-> NoName, callbacks |-> 1]

\* the options given to setRoute (a path is required there) and to use()
RouteOptions == {PathMw, PathMwId, GetA, GetId}
UseOptions == {GlobalMw}

\* the route tables explored: every prefix of these registration sequences
RouteTables ==
  { <<GlobalMw, PathMw, GetA>>,
    <<GetId, GetA, GlobalMw>>,
    <<PathMw, PathMwId, GetA>>,
    <<GlobalMw, GlobalMw, GetId>> }

\* the tables and requests on which the order of the candidates is checked:
\* every sequence of up to MaxSortRoutes terminal routes, a route may repeat
SortRoutes == {GetA, GetAOther, GetId, GetAHost, GetAWild, GetIdRegexp, GetUnnamed}
SortTables == UNION { [1..n -> SortRoutes] : n \in 0..MaxSortRoutes }
SortRequests ==
  { [host |-> h, method |-> "GET", url |-> u] :
      h \in {NoHost, HostApi, HostApiUpper}, u \in {UrlA, UrlB} }

\* what a callback does: operations on the engine, up to a return, a throw or
\* an await; a callback that awaited goes on with one of the continuations
Terminals == {"retT", "retF", "throwObj", "throwStr"}
Behaviours ==
  { <<"next", "retF">>,
    <<"retF">>,
    <<"retT">>,
    <<"send", "retF">>,
    <<"send", "next", "retF">>,
    <<"throwObj">>,
    <<"throwStr">>,
    <<"next", "throwObj">>,
    <<"skip", "retF">>,
    <<"nextnext", "retF">>,
    <<"nextErrObj", "retF">>,
    <<"nextErrStr", "retF">>,
    <<"next", "nextErrObj", "retF">>,
    <<"next", "await">>,
    <<"await">> }
Continuations ==
  { <<"retF">>,
    <<"throwObj">>,
    <<"send", "retF">>,
    <<"next", "retF">> }

VARIABLES
  routes,                       \* Router.routes(): the route table
  globalMiddlewares,            \* _globalMiddlewares, as indexes into routes
  hasSetGlobalMiddlewares,      \* _hasSetGlobalMiddlewares
  routeCacheGlobalMiddlewares,  \* the three match caches, cacheKey -> value
  routeCacheRouteMiddlewares,
  routeCacheRouteHandlers,
  request,                      \* the options of the handle() call in flight
  matchedGlobalMiddlewares,     \* locals of handle()
  matchedRouteMiddlewares,
  matchedRouteHandlers,
  pc, tier, hk, mi, ci,         \* position of handle() in its loops
  continueProcessingMiddlewares,
  continueProcessingRouteHandlers,
  errorThrown,
  route,                        \* the outer `route` of handleIterator
  matchedRoute,                 \* 0 (undefined) or the route whose match it is
  requestParams,                \* request.params / subdomains: 0 or the route whose match gave them
  headersSent,                  \* response.headersSent
  promise,                      \* the promise handle() awaits
  frames,                       \* callbacks suspended at an await
  result,                       \* how the promise returned by handle() settled
  log,                          \* history: the callbacks invoked by this call
  registrationError,            \* what the latest setRoute / use call threw
  server,                       \* the server layer whose fetch() calls handle()
  routeUsed,                    \* fetch(): how `await handle(...)` came out
  nativeResponse,               \* fetch(): whether res.response is set
  answer,                       \* what fetch() gave back for the request
  upload,                       \* a multipart upload and the options of its handler
  uploadResult,                 \* what the multipart handler returned or threw
  incoming,                     \* a native request whose body BunRequest parses
  parsedBody,                   \* BunRequest._body, _contentType, Content-Type
  suspended,                    \* the locals of a second handle() call in flight
  bunRes,                       \* a BunResponse: response, _upgradeToWsData, _isLongLived
  poll,                         \* the promise of a getNativeResponse(timeout) call
  adapter,                      \* BunHttpAdapter: the body parser registrations
  ws,                           \* BunWebSocket: route handlers and their invocations
  storage                       \* the files an upload handler stored and removed

tableVars == <<routes, globalMiddlewares, hasSetGlobalMiddlewares,
               routeCacheGlobalMiddlewares, routeCacheRouteMiddlewares,
               routeCacheRouteHandlers>>
matchVars == <<request, matchedGlobalMiddlewares, matchedRouteMiddlewares,
               matchedRouteHandlers>>
posVars == <<pc, tier, hk, mi, ci>>
flagVars == <<continueProcessingMiddlewares, continueProcessingRouteHandlers,
              errorThrown, headersSent, promise>>
\* what the callers of the router hold
serverVars == <<server, routeUsed, nativeResponse, answer>>
uploadVars == <<upload, uploadResult>>
bodyVars == <<incoming, parsedBody>>
quietVars == <<bunRes, poll, adapter, ws, storage>>
extraVars == <<suspended, quietVars>>
layerVars == <<serverVars, uploadVars, bodyVars, extraVars>>
callerVars == <<registrationError, layerVars>>
vars == <<tableVars, matchVars, posVars, flagVars, route, matchedRoute, requestParams,
          frames, result, log, callerVars>>
\* the router, its callers and the parsers
baseVars == <<tableVars, matchVars, posVars, flagVars, route, matchedRoute, requestParams,
              frames, result, log, registrationError, serverVars, uploadVars, bodyVars,
              suspended>>

\* ------------------------------------------------------------ route table

IsGlobalMiddleware(r) == r.method = NoMethod /\ r.path = NoPath
IsPathMiddleware(r) == r.path # NoPath /\ r.method = NoMethod
IsTerminal(r) == r.path # NoPath /\ r.method # NoMethod

\* requestUrl.slice(0, requestUrl.indexOf("?"))
RECURSIVE StripQuery(_)
StripQuery(url) ==
  IF url = <<>> \/ Head(url) = "?" THEN <<>>
  ELSE <<Head(url)>> \o StripQuery(Tail(url))

\* a faulty variant: the url is matched with its query string
RequestPathWithQuery(req) == req.url

RequestPath(req) == StripQuery(req.url)

SegmentMatches(token, segment) ==
  \/ token = segment
  \/ token \in ParamTokens /\ segment # "/"
  \/ token \in RegexpTokens \cup UnnamedTokens /\ segment \in RegexpAccepts

PathMatches(pattern, path) ==
  /\ Len(pattern) = Len(path)
  /\ \A i \in 1..Len(pattern) : SegmentMatches(pattern[i], path[i])

\* String(host).toLowerCase()
LowerCase(h) == IF h = HostApiUpper THEN HostApi ELSE h

\* a declared host matches the request host whatever the case of its letters
HostMatches(pattern, host) ==
  \/ LowerCase(pattern) = LowerCase(host)
  \/ pattern = HostWild /\ LowerCase(host) = HostApi

\* route.match({host, method, path}): TRUE when it returns a MatchResult
Match(r, req) ==
  /\ r.host = NoHost \/ HostMatches(r.host, req.host)
  /\ r.method = NoMethod \/ r.method = req.method
  /\ r.path = NoPath \/ PathMatches(r.path, RequestPath(req))

\* the MatchResult of routes[i] for the request, named by its route; 0 is "no match"
RouteMatch(i, req) ==
  IF i \in 1..Len(routes) /\ Match(routes[i], req) THEN i ELSE 0

\* a faulty variant: the callback indexes of a route collected back to front
CallbackIndexesReversed(n) == [k \in 1..n |-> n + 1 - k]

\* callbacks.forEach((callback, callbackIndex) => callbackIndexes.push(...))
CallbackIndexes(n) == [k \in 1..n |-> k]

CacheKey(req) == <<IF req.host = NoHost THEN "none" ELSE req.host, req.url, req.method>>

\* a faulty variant: the filter asks for a missing method only, so path
\* middleware lands in the global list
RECURSIVE FilterGlobalNoPathTest(_, _)
FilterGlobalNoPathTest(rs, i) ==
  IF i > Len(rs) THEN <<>>
  ELSE (IF rs[i].method = NoMethod THEN <<i>> ELSE <<>>) \o FilterGlobalNoPathTest(rs, i + 1)

\* routes.filter(route => isUndefined(route.method) && isUndefined(route.path))
RECURSIVE FilterGlobal(_, _)
FilterGlobal(rs, i) ==
  IF i > Len(rs) THEN <<>>
  ELSE (IF IsGlobalMiddleware(rs[i]) THEN <<i>> ELSE <<>>) \o FilterGlobal(rs, i + 1)

\* the matched global middlewares: routeIndex is an index into _globalMiddlewares
RECURSIVE ComputeGlobalMiddlewares(_, _, _)
ComputeGlobalMiddlewares(gm, req, i) ==
  IF i > Len(gm) THEN <<>>
  ELSE (IF Match(routes[gm[i]], req)
          THEN <<[routeIndex |-> i,
                  callbackIndexes |-> CallbackIndexes(routes[gm[i]].callbacks)]>>
          ELSE <<>>) \o ComputeGlobalMiddlewares(gm, req, i + 1)

\* the matched path middlewares: routeIndex is an index into routes
RECURSIVE ComputeRouteMiddlewares(_, _)
ComputeRouteMiddlewares(req, i) ==
  IF i > Len(routes) THEN <<>>
  ELSE (IF IsPathMiddleware(routes[i]) /\ Match(routes[i], req)
          THEN <<[routeIndex |-> i,
                  callbackIndexes |-> CallbackIndexes(routes[i].callbacks)]>>
          ELSE <<>>) \o ComputeRouteMiddlewares(req, i + 1)

\* the matching terminal routes, in registration order
RECURSIVE MatchedRoutes(_, _)
MatchedRoutes(req, i) ==
  IF i > Len(routes) THEN <<>>
  ELSE (IF IsTerminal(routes[i]) /\ Match(routes[i], req) THEN <<i>> ELSE <<>>)
         \o MatchedRoutes(req, i + 1)

\* String(route.host || "").length
HostLength(h) == IF h = NoHost THEN 0 ELSE IF h = HostWild THEN 16 ELSE 15

RECURSIVE CountTokens(_, _)
CountTokens(path, S) ==
  IF path = <<>> THEN 0
  ELSE (IF Head(path) \in S THEN 1 ELSE 0) + CountTokens(Tail(path), S)

\* a faulty variant: the fourth key, route.params.length, is left out
SortKeyWithoutParamCount(i, req) ==
  LET r == routes[i] IN
  << IF r.host # NoHost /\ LowerCase(r.host) = LowerCase(req.host) THEN 0 ELSE 1,
     0 - HostLength(r.host),
     IF r.method = req.method THEN 0 ELSE 1,
     0 - CountTokens(r.path, ParamTokens \cup RegexpTokens),
     0 - CountTokens(r.path, RegexpTokens \cup UnnamedTokens) >>

\* a faulty variant: the second key, the declared-host length, sorts ascending
SortKeyHostAscending(i, req) ==
  LET r == routes[i] IN
  << IF r.host # NoHost /\ LowerCase(r.host) = LowerCase(req.host) THEN 0 ELSE 1,
     HostLength(r.host),
     IF r.method = req.method THEN 0 ELSE 1,
     CountTokens(r.path, ParamTokens \cup RegexpTokens \cup UnnamedTokens),
     0 - CountTokens(r.path, ParamTokens \cup RegexpTokens),
     0 - CountTokens(r.path, RegexpTokens \cup UnnamedTokens) >>

\* the six iteratees of orderBy; a "desc" key is negated
SortKey(i, req) ==
  LET r == routes[i] IN
  << IF r.host # NoHost /\ LowerCase(r.host) = LowerCase(req.host) THEN 0 ELSE 1,
     0 - HostLength(r.host),
     IF r.method = req.method THEN 0 ELSE 1,
     CountTokens(r.path, ParamTokens \cup RegexpTokens \cup UnnamedTokens),
     0 - CountTokens(r.path, ParamTokens \cup RegexpTokens),
     0 - CountTokens(r.path, RegexpTokens \cup UnnamedTokens) >>

RECURSIVE KeyLess(_, _)
KeyLess(a, b) ==
  IF a = <<>> THEN FALSE
  ELSE IF Head(a) # Head(b) THEN Head(a) < Head(b)
  ELSE KeyLess(Tail(a), Tail(b))

\* a faulty variant: x goes before the elements it ties with
RECURSIVE InsertOrderedBeforeEqual(_, _, _)
InsertOrderedBeforeEqual(sorted, x, req) ==
  IF sorted = <<>> THEN <<x>>
  ELSE IF ~KeyLess(SortKey(Head(sorted), req), SortKey(x, req))
         THEN <<x>> \o sorted
         ELSE <<Head(sorted)>> \o InsertOrderedBeforeEqual(Tail(sorted), x, req)

\* orderBy is a stable sort: x goes after every element that is not greater
RECURSIVE InsertOrdered(_, _, _)
InsertOrdered(sorted, x, req) ==
  IF sorted = <<>> THEN <<x>>
  ELSE IF KeyLess(SortKey(x, req), SortKey(Head(sorted), req))
         THEN <<x>> \o sorted
         ELSE <<Head(sorted)>> \o InsertOrdered(Tail(sorted), x, req)

RECURSIVE OrderBy(_, _)
OrderBy(seq, req) ==
  IF seq = <<>> THEN <<>>
  ELSE InsertOrdered(OrderBy(SubSeq(seq, 1, Len(seq) - 1), req), seq[Len(seq)], req)

ComputeRouteHandlers(req) == OrderBy(MatchedRoutes(req, 1), req)

\* ------------------------------------------------------- errors and results

\* the values a callback throws or passes to next(): an Error object or a string
ThrownError == Value("object", "thrown Error")
ThrownString == Value("string", "thrown string")
PassedError == Value("object", "Error passed to next")
PassedString == Value("string", "string passed to next")
ThrownValues == {ThrownError, ThrownString}
PassedValues == {PassedError, PassedString}

IsString(e) == e[1] = "string"
IsObject(e) == e[1] = "object"

\* BunRouter.throwError: the value handle() rejects with
ThrowError(e) ==
  IF IsObject(e) THEN e
  ELSE IF IsString(e) THEN Value("object", <<"new Error", e[2]>>)
  ELSE Value("object", <<"new Error", "An error was triggered in a middleware handler">>)

Pending == [kind |-> "pending", route |-> 0, err |-> NoError]
Rejected(e) == [kind |-> "rejected", route |-> 0, err |-> e]
Undefined == [kind |-> "undefined", route |-> 0, err |-> NoError]
ResolvedTrue == [kind |-> "true", route |-> 0, err |-> NoError]
Matched(m) == [kind |-> "matched", route |-> m, err |-> NoError]

\* `return matchedRoute`
ReturnMatched(m) == IF m = 0 THEN Undefined ELSE Matched(m)
\* `return matchedRoute || true`
ReturnMatchedOrTrue(m) == IF m = 0 THEN ResolvedTrue ELSE Matched(m)

\* ------------------------------------------------- one callback invocation

FreshPromise(id) == [state |-> "pending", val |-> "", err |-> NoError, owner |-> id]

\* what a running callback can read and write: the closure variables of
\* handle(), the response, its own promise and its own continuation object
Ctx(id, called) ==
  [ id |-> id, called |-> called,
    cpm |-> continueProcessingMiddlewares,
    cprh |-> continueProcessingRouteHandlers,
    err |-> errorThrown,
    sent |-> headersSent,
    promise |-> promise ]

\* resolve / reject of the promise built around the invocation: only the first
\* call settles it
Resolve(c, v) ==
  IF c.promise.owner = c.id /\ c.promise.state = "pending"
    THEN [c EXCEPT !.promise.state = "resolved", !.promise.val = v]
    ELSE c

Reject(c, e) ==
  IF c.promise.owner = c.id /\ c.promise.state = "pending"
    THEN [c EXCEPT !.promise.state = "rejected", !.promise.err = e]
    ELSE c

BoolStr(b) == IF b THEN "true" ELSE "false"

\* a faulty variant: next("skip") taken for a plain next()
NextHandlerSkipIgnored(c, err) ==
  LET c1 == [c EXCEPT !.called = TRUE] IN
  IF err = NoError \/ err = Value("string", "skip") THEN Resolve(c1, BoolStr(c1.cpm))
  ELSE IF err = Value("string", "next") THEN Resolve([c1 EXCEPT !.cpm = TRUE], "true")
  ELSE Reject([c1 EXCEPT !.cprh = FALSE, !.err = err], err)

\* a faulty variant: next(err) records the error but lets the chain continue
NextHandlerErrorResolves(c, err) ==
  LET c1 == [c EXCEPT !.called = TRUE] IN
  IF err = NoError THEN Resolve(c1, BoolStr(c1.cpm))
  ELSE IF err = Value("string", "next") THEN Resolve([c1 EXCEPT !.cpm = TRUE], "true")
  ELSE IF err = Value("string", "skip") THEN Resolve([c1 EXCEPT !.cpm = FALSE], "false")
  ELSE Resolve([c1 EXCEPT !.cprh = FALSE, !.err = err], BoolStr(c1.cpm))

\* nextFnGenerator(...).handler(err)
NextHandler(c, err) ==
  LET c1 == [c EXCEPT !.called = TRUE] IN
  IF err = NoError THEN Resolve(c1, BoolStr(c1.cpm))
  ELSE IF err = Value("string", "next") THEN Resolve([c1 EXCEPT !.cpm = TRUE], "true")
  ELSE IF err = Value("string", "skip") THEN Resolve([c1 EXCEPT !.cpm = FALSE], "false")
  ELSE Reject([c1 EXCEPT !.cprh = FALSE, !.err = err], err)

\* response.send / response.json / response.end by the callback
Send(c) == [c EXCEPT !.sent = TRUE]

ApplyOp(c, op) ==
  CASE op = "send" -> Send(c)
    [] op = "next" -> NextHandler(c, NoError)
    [] op = "nextnext" -> NextHandler(c, Value("string", "next"))
    [] op = "skip" -> NextHandler(c, Value("string", "skip"))
    [] op = "nextErrObj" -> NextHandler(c, PassedError)
    [] op = "nextErrStr" -> NextHandler(c, PassedString)

\* the callback runs until it suspends at an await or ends
RECURSIVE RunSegment(_, _)
RunSegment(c, prog) ==
  IF Head(prog) = "await" THEN [ctx |-> c, rest |-> Tail(prog), outcome |-> ""]
  ELSE IF Head(prog) \in Terminals THEN [ctx |-> c, rest |-> <<>>, outcome |-> Head(prog)]
  ELSE RunSegment(ApplyOp(c, Head(prog)), Tail(prog))

Thrown(outcome) == IF outcome = "throwObj" THEN ThrownError ELSE ThrownString

\* a faulty variant of PostNoTerminal: a returned value is not sent
PostNoTerminalIgnoresValue(c, outcome) ==
  IF outcome \in {"throwObj", "throwStr"}
    THEN Resolve([c EXCEPT !.err = Thrown(outcome)], "skip-middlewares")
  ELSE IF c.sent THEN Resolve(c, "end-routing")
  ELSE Resolve(c, "normal")

\* the code after `await handler(request, response, next)` and the catch
\* block, in the no-terminal-route branch
PostNoTerminal(c, outcome) ==
  IF outcome \in {"throwObj", "throwStr"}
    THEN Resolve([c EXCEPT !.err = Thrown(outcome)], "skip-middlewares")
  ELSE IF c.sent \/ outcome = "retT"
    THEN Resolve(Send(c), "end-routing")
  ELSE Resolve(c, "normal")

\* the same for a global or path middleware run before a terminal route
PostMiddleware(c, outcome) ==
  IF outcome \in {"throwObj", "throwStr"}
    THEN Resolve([c EXCEPT !.err = Thrown(outcome)], "continue-handlers")
  ELSE IF c.sent THEN Resolve(c, "end-routing")
  ELSE IF ~c.called /\ outcome = "retF" THEN Resolve(c, "skip-middlewares")
  ELSE Resolve(c, "normal")

\* a faulty variant: a callback that returns nothing without next() and without
\* a response leaves the promise pending
PostTerminalLeavesPending(c, isLastCallback, outcome) ==
  IF outcome \in {"throwObj", "throwStr"}
    THEN Resolve([c EXCEPT !.err = Thrown(outcome)], "continue-handler")
  ELSE IF c.sent THEN Resolve(c, "end-routing")
  ELSE IF ~c.called /\ outcome = "retF" THEN c
  ELSE Resolve(c, IF isLastCallback THEN "continue-handler" ELSE "continue-callback")

\* the same for a callback of a terminal route
PostTerminal(c, isLastCallback, outcome) ==
  IF outcome \in {"throwObj", "throwStr"}
    THEN Resolve([c EXCEPT !.err = Thrown(outcome)], "continue-handler")
  ELSE IF c.sent \/ (~c.called /\ outcome = "retF") THEN Resolve(c, "end-routing")
  ELSE Resolve(c, IF isLastCallback THEN "continue-handler" ELSE "continue-callback")

PostProcess(c, kind, isLastCallback, outcome) ==
  CASE kind = "nt" -> PostNoTerminal(c, outcome)
    [] kind = "mw" -> PostMiddleware(c, outcome)
    [] kind = "t" -> PostTerminal(c, isLastCallback, outcome)

SetCtx(c) ==
  /\ continueProcessingMiddlewares' = c.cpm
  /\ continueProcessingRouteHandlers' = c.cprh
  /\ errorThrown' = c.err
  /\ headersSent' = c.sent
  /\ promise' = c.promise

WaitStates == {"ntWait", "mwWait", "tWait"}

\* a faulty variant: handle() does not wait for the promise
SettledWithoutWaiting(p) == TRUE

\* `await new Promise(...)`: handle() goes on once the promise has settled
Settled(p) == p.state # "pending"

\* the history keeps what a callback did for the latest invocation only
Forget(l) == [i \in 1..Len(l) |-> [l[i] EXCEPT !.prog = <<>>]]

\* `await new Promise(async (resolve, reject) => { ... })`: the executor calls
\* the handler, whose synchronous part runs at once
Invoke(kind, isLastCallback, r, k) ==
  \E prog \in Behaviours :
    /\ prog[Len(prog)] = "await" => Cardinality(frames) < MaxPending
    /\ log' = Append(Forget(log),
                     [hk |-> hk, tier |-> IF kind = "t" THEN "t" ELSE tier, route |-> r,
                      cb |-> k, prog |-> prog])
    /\ LET id == Len(log) + 1
           c0 == [Ctx(id, FALSE) EXCEPT !.promise = FreshPromise(id)]
           run == RunSegment(c0, prog)
       IN IF run.outcome = ""
            THEN /\ SetCtx(run.ctx)
                 /\ frames' = frames \cup
                      {[id |-> id, kind |-> kind, last |-> isLastCallback,
                        called |-> run.ctx.called, outcome |-> ""]}
            ELSE /\ SetCtx(PostProcess(run.ctx, kind, isLastCallback, run.outcome))
                 /\ frames' = frames

\* ------------------------------------------------------------ registration

\* no multipart upload is being handled
NoUpload ==
  /\ upload = [handler |-> "none", kept |-> 0, filtered |-> 0, foreign |-> FALSE, maxCount |-> 0]
  /\ uploadResult = "none"

\* no request body is being parsed
NoBody ==
  /\ incoming = [text |-> "", header |-> "", bodyUsed |-> FALSE, canHandleUpload |-> FALSE]
  /\ parsedBody = [body |-> [type |-> "none", value |-> ""], contentType |-> "",
                   header |-> "", parsed |-> FALSE]

\* the locals of a handle() call that has not been entered
NotEntered ==
  [request |-> [host |-> NoHost, method |-> NoMethod, url |-> <<>>],
   matchedGlobalMiddlewares |-> <<>>, matchedRouteMiddlewares |-> <<>>,
   matchedRouteHandlers |-> <<>>,
   pc |-> "idle", tier |-> "g", hk |-> 0, mi |-> 0, ci |-> 0,
   continueProcessingMiddlewares |-> TRUE, continueProcessingRouteHandlers |-> TRUE,
   errorThrown |-> NoError, headersSent |-> FALSE, promise |-> FreshPromise(0),
   route |-> 0, matchedRoute |-> 0, requestParams |-> 0, frames |-> {}, result |-> Pending, log |-> <<>>]

\* a new BunResponse; `by` names the call that made the native response
NoResponse ==
  [response |-> [by |-> "none", n |-> 0], upgradeToWsData |-> FALSE, isLongLived |-> FALSE,
   sending |-> {}, calls |-> 0]

\* getNativeResponse has not been called
NoPoll == [state |-> "none", timeout |-> 0, elapsedTime |-> 0, resolved |-> [by |-> "none", n |-> 0]]

\* a new BunHttpAdapter: _hasRegisteredBodyParser = false, nothing registered
NoAdapter == [hasRegisteredBodyParser |-> FALSE, registered |-> <<>>, parsed |-> 0]

\* the paths WebSocket clients connect on
WsPaths == {"/chat", "/feed"}

\* a new BunWebSocket: _routeHandlers is empty, no event has fired
NoWebSocket ==
  [routeHandlers |-> [p \in WsPaths |-> <<>>],
   fired |-> [event |-> "none", path |-> "", handlersArr |-> <<>>],
   invoked |-> <<>>]

\* no multipart handler is storing files
NoStorage ==
  [handler |-> "none", maxCount |-> 0, task |-> <<>>, files |-> {}, stored |-> {},
   forced |-> {}, phase |-> "none"]

\* nothing else is going on
NoExtras ==
  /\ suspended = NotEntered
  /\ bunRes = NoResponse
  /\ poll = NoPoll
  /\ adapter = NoAdapter
  /\ ws = NoWebSocket
  /\ storage = NoStorage

RouterConstructed(table) ==
  /\ routes = table
  /\ globalMiddlewares = <<>>
  /\ hasSetGlobalMiddlewares = FALSE
  /\ routeCacheGlobalMiddlewares = <<>>
  /\ routeCacheRouteMiddlewares = <<>>
  /\ routeCacheRouteHandlers = <<>>
  /\ request = [host |-> NoHost, method |-> NoMethod, url |-> <<>>]
  /\ matchedGlobalMiddlewares = <<>>
  /\ matchedRouteMiddlewares = <<>>
  /\ matchedRouteHandlers = <<>>
  /\ pc = "idle" /\ tier = "g" /\ hk = 0 /\ mi = 0 /\ ci = 0
  /\ continueProcessingMiddlewares = TRUE
  /\ continueProcessingRouteHandlers = TRUE
  /\ errorThrown = NoError
  /\ route = 0
  /\ matchedRoute = 0
  /\ requestParams = 0
  /\ headersSent = FALSE
  /\ promise = FreshPromise(0)
  /\ frames = {}
  /\ result = Pending
  /\ log = <<>>
  /\ registrationError = NoError

\* a router on which routes were registered, and no server layer in front of it
Constructed(table) ==
  /\ RouterConstructed(table)
  /\ server = [layer |-> "none", notFoundHandlers |-> 0, requestTimeout |-> FALSE]
  /\ routeUsed = Pending
  /\ nativeResponse = FALSE
  /\ answer = [kind |-> "none", status |-> 0, statusText |-> "", err |-> NoError]
  /\ NoUpload
  /\ NoBody
  /\ NoExtras

\* a new router: no route registered
Init == Constructed(<<>>)

NoCallInFlight == pc \in {"idle", "done"}

CanRegister(table) ==
  \E t \in RouteTables : Len(table) <= Len(t) /\ table = SubSeq(t, 1, Len(table))

\* new Error(`Route with name "${option.name}" already exists..`)
DuplicateName == Value("object", "Route with name already exists")

\* a faulty variant: the name is looked up after the route was appended
SetRouteChecksLate(option) ==
  /\ NoCallInFlight
  /\ routes' = Append(routes, option)
  /\ registrationError' =
       IF option.name # NoName /\ \E i \in 1..Len(routes) : routes[i].name = option.name
         THEN DuplicateName ELSE NoError
  /\ UNCHANGED <<globalMiddlewares, hasSetGlobalMiddlewares, routeCacheGlobalMiddlewares,
                 routeCacheRouteMiddlewares, routeCacheRouteHandlers, matchVars, posVars,
                 flagVars, route, matchedRoute, requestParams, frames, result, log, layerVars>>

\* BunRouter.setRoute(option): a duplicate name throws, else the route is appended
SetRoute(option) ==
  /\ NoCallInFlight
  /\ IF option.name # NoName /\ \E i \in 1..Len(routes) : routes[i].name = option.name
       THEN routes' = routes /\ registrationError' = DuplicateName
       ELSE /\ CanRegister(Append(routes, option))
            /\ routes' = Append(routes, option)
            /\ registrationError' = NoError
  /\ UNCHANGED <<globalMiddlewares, hasSetGlobalMiddlewares, routeCacheGlobalMiddlewares,
                 routeCacheRouteMiddlewares, routeCacheRouteHandlers, matchVars, posVars,
                 flagVars, route, matchedRoute, requestParams, frames, result, log, layerVars>>

\* Router.use(...callbacks): a route with neither path nor method
Use(option) ==
  /\ NoCallInFlight
  /\ CanRegister(Append(routes, option))
  /\ routes' = Append(routes, option)
  /\ registrationError' = NoError
  /\ UNCHANGED <<globalMiddlewares, hasSetGlobalMiddlewares, routeCacheGlobalMiddlewares,
                 routeCacheRouteMiddlewares, routeCacheRouteHandlers, matchVars, posVars,
                 flagVars, route, matchedRoute, requestParams, frames, result, log, layerVars>>

\* --------------------------------------------------------------- handle()

\* a faulty variant: a hit is taken for an empty list
CacheGetEmptyOnHit(cache, key, computed) == IF key \in DOMAIN cache THEN <<>> ELSE computed

\* a faulty variant: the selection is computed anew although the key is cached
CacheGetRecomputes(cache, key, computed) == computed

CacheGet(cache, key, computed) == IF key \in DOMAIN cache THEN cache[key] ELSE computed
\* a faulty variant: a call that finds the key stored adds its selection to
\* the entry
CachePutAppends(cache, key, computed) ==
  IF key \in DOMAIN cache THEN [cache EXCEPT ![key] = @ \o computed]
                           ELSE (key :> computed) @@ cache

CachePut(cache, key, computed) == IF key \in DOMAIN cache THEN cache ELSE (key :> computed) @@ cache

\* a faulty variant: the list is made anew by every call
GlobalMiddlewareListRecomputed == FilterGlobal(routes, 1)

\* `if (!this._hasSetGlobalMiddlewares)`: the list is made by the first call
GlobalMiddlewareList ==
  IF hasSetGlobalMiddlewares THEN globalMiddlewares ELSE FilterGlobal(routes, 1)

\* handle(options) up to the first loop: the global-middleware list, the three
\* cache lookups (computing and storing on a miss) and the per-call variables.
\* No await stands in this part, so it runs without interruption.
Enter(req) ==
  /\ LET gm == GlobalMiddlewareList
         key == CacheKey(req)
         mgm == CacheGet(routeCacheGlobalMiddlewares, key, ComputeGlobalMiddlewares(gm, req, 1))
         mrm == CacheGet(routeCacheRouteMiddlewares, key, ComputeRouteMiddlewares(req, 1))
         mrh == CacheGet(routeCacheRouteHandlers, key, ComputeRouteHandlers(req))
     IN /\ globalMiddlewares' = gm
        /\ hasSetGlobalMiddlewares' = TRUE
        /\ routeCacheGlobalMiddlewares' = CachePut(routeCacheGlobalMiddlewares, key, mgm)
        /\ routeCacheRouteMiddlewares' = CachePut(routeCacheRouteMiddlewares, key, mrm)
        /\ routeCacheRouteHandlers' = CachePut(routeCacheRouteHandlers, key, mrh)
        /\ matchedGlobalMiddlewares' = mgm
        /\ matchedRouteMiddlewares' = mrm
        /\ matchedRouteHandlers' = mrh
        /\ pc' = IF mrh = <<>> THEN "ntRoute" ELSE "hTop"
        /\ hk' = IF mrh = <<>> THEN 0 ELSE 1
  /\ request' = req
  /\ tier' = "g" /\ mi' = 1 /\ ci' = 1
  /\ continueProcessingMiddlewares' = TRUE
  /\ continueProcessingRouteHandlers' = TRUE
  /\ errorThrown' = NoError
  /\ route' = 0
  /\ matchedRoute' = 0
  /\ requestParams' = 0
  /\ headersSent' = FALSE
  /\ promise' = FreshPromise(0)
  /\ frames' = {}
  /\ result' = Pending
  /\ log' = <<>>
  /\ registrationError' = NoError
  /\ UNCHANGED <<routes, layerVars>>

\* a handle() call made when no other call is in flight
Handle(req) == NoCallInFlight /\ Enter(req)

\* the promise returned by handle() settles; callbacks still suspended then can
\* no longer change how it settled and are not followed further
Settle(res) ==
  /\ result' = res
  /\ pc' = "done"
  /\ frames' = {}

\* handle() goes on to another place of its loops
Goto(place) ==
  /\ pc' = place
  /\ result' = result
  /\ frames' = frames

MiddlewareList == IF tier = "g" THEN matchedGlobalMiddlewares ELSE matchedRouteMiddlewares

\* get(this._globalMiddlewares, obj.routeIndex) / get(routes, obj.routeIndex)
MiddlewareRoute(obj) ==
  IF tier = "g" THEN globalMiddlewares[obj.routeIndex] ELSE obj.routeIndex

\* a faulty variant: the parameters are set for the first match only
SetParamsOnce(m) ==
  requestParams' = IF m # 0 /\ requestParams = 0 THEN m ELSE requestParams

\* if (matchedRoute && isObject(matchedRoute)) { request.params =
\* matchedRoute.params; request.subdomains = matchedRoute.subdomains }
SetParams(m) ==
  requestParams' = IF m # 0 THEN m ELSE requestParams

\* a faulty variant: the match in progress is kept when routing ends
EndRoutingKeepsMatch(r) ==
  /\ continueProcessingMiddlewares' = FALSE
  /\ continueProcessingRouteHandlers' = FALSE
  /\ matchedRoute' = matchedRoute
  /\ requestParams' = requestParams

\* the "end-routing" case of the switch on promiseResp
EndRouting(r) ==
  /\ continueProcessingMiddlewares' = FALSE
  /\ continueProcessingRouteHandlers' = FALSE
  /\ matchedRoute' = RouteMatch(r, request)
  /\ SetParams(RouteMatch(r, request))

engineFlags == <<continueProcessingMiddlewares, continueProcessingRouteHandlers, matchedRoute, requestParams>>
callbackFlags == <<errorThrown, headersSent, promise>>

\* ---- no terminal route matched: the middlewares may serve the request

\* a faulty variant: without a matching terminal route handle() gives up at
\* once and runs no middleware
NtRouteGivesUp ==
  /\ pc = "ntRoute"
  /\ Goto("final") /\ ci' = ci
  /\ UNCHANGED <<tier, hk, mi, flagVars, route, matchedRoute, requestParams, tableVars, callerVars, matchVars, log>>

\* head of globalMiddlewareIterator / routeMiddlewareIterator
NtRoute ==
  /\ pc = "ntRoute"
  /\ IF mi > Len(MiddlewareList) \/ ~continueProcessingMiddlewares
       THEN Goto("ntAfter") /\ ci' = ci
       ELSE Goto("ntCb") /\ ci' = 1
  /\ UNCHANGED <<tier, hk, mi, flagVars, route, matchedRoute, requestParams, tableVars, callerVars, matchVars, log>>

\* head of middleWareCallbackIterator: invoke the next callback of the route
NtCb ==
  /\ pc = "ntCb"
  /\ IF ci > Len(MiddlewareList[mi].callbackIndexes)
       THEN /\ Goto("ntRoute") /\ mi' = mi + 1
            /\ UNCHANGED <<flagVars, log>>
       ELSE /\ pc' = "ntWait" /\ result' = result /\ mi' = mi
            /\ Invoke("nt", FALSE, MiddlewareRoute(MiddlewareList[mi]),
                      MiddlewareList[mi].callbackIndexes[ci])
  /\ UNCHANGED <<tier, hk, ci, route, matchedRoute, requestParams, tableVars, callerVars, matchVars>>

\* the switch on promiseResp
NtResume ==
  /\ pc = "ntWait"
  /\ Settled(promise)
  /\ IF promise.state = "rejected"
       THEN Settle(Rejected(promise.err)) /\ UNCHANGED <<ci, engineFlags>>
     ELSE IF promise.val = "end-routing"
       THEN /\ EndRouting(MiddlewareRoute(MiddlewareList[mi]))
            /\ Goto("ntAfter") /\ ci' = ci
     ELSE IF promise.val = "skip-middlewares"
       THEN /\ continueProcessingMiddlewares' = FALSE
            /\ Goto("ntAfter")
            /\ UNCHANGED <<ci, continueProcessingRouteHandlers, matchedRoute, requestParams>>
     ELSE Goto("ntCb") /\ ci' = ci + 1 /\ UNCHANGED engineFlags
  /\ UNCHANGED <<tier, hk, mi, callbackFlags, route, tableVars, callerVars, matchVars, log>>

\* a faulty variant: the test of response.headersSent after a middleware loop
\* is left out
NtAfterAlwaysReturns ==
  /\ pc = "ntAfter"
  /\ IF errorThrown # NoError
       THEN Settle(Rejected(ThrowError(errorThrown)))
       ELSE Settle(ReturnMatchedOrTrue(matchedRoute))
  /\ UNCHANGED <<tier, mi, hk, ci, flagVars, route, matchedRoute, requestParams, tableVars, callerVars, matchVars, log>>

\* after either middleware loop: throwError, `return matchedRoute || true`
NtAfter ==
  /\ pc = "ntAfter"
  /\ IF errorThrown # NoError
       THEN Settle(Rejected(ThrowError(errorThrown))) /\ UNCHANGED <<tier, mi>>
     ELSE IF headersSent
       THEN Settle(ReturnMatchedOrTrue(matchedRoute)) /\ UNCHANGED <<tier, mi>>
     ELSE IF tier = "g"
       THEN Goto("ntRoute") /\ tier' = "p" /\ mi' = 1
     ELSE Goto("final") /\ UNCHANGED <<tier, mi>>
  /\ UNCHANGED <<hk, ci, flagVars, route, matchedRoute, requestParams, tableVars, callerVars, matchVars, log>>

\* ---- handleIterator: one pass per candidate terminal route

HandleTop ==
  /\ pc = "hTop"
  /\ IF hk > Len(matchedRouteHandlers)
       THEN Goto("final") /\ UNCHANGED <<tier, hk, mi, route, matchedRoute, requestParams>>
     ELSE IF errorThrown # NoError
       THEN Settle(Rejected(ThrowError(errorThrown)))
            /\ UNCHANGED <<tier, hk, mi, route, matchedRoute, requestParams>>
     ELSE IF ~continueProcessingRouteHandlers
       THEN Settle(ReturnMatched(matchedRoute))
            /\ UNCHANGED <<tier, hk, mi, route, matchedRoute, requestParams>>
     ELSE /\ route' = matchedRouteHandlers[hk]
          /\ IF RouteMatch(matchedRouteHandlers[hk], request) = 0
               THEN Goto("hTop") /\ hk' = hk + 1 /\ UNCHANGED <<tier, mi, matchedRoute, requestParams>>
               ELSE /\ matchedRoute' = RouteMatch(matchedRouteHandlers[hk], request)
                    /\ SetParams(RouteMatch(matchedRouteHandlers[hk], request))
                    /\ Goto("mwRoute") /\ tier' = "g" /\ mi' = 1 /\ hk' = hk
  /\ UNCHANGED <<ci, flagVars, tableVars, callerVars, matchVars, log>>

\* `break` out of a middleware loop: on to the path tier, or past both
LeaveTier ==
  IF tier = "g" THEN Goto("mwRoute") /\ tier' = "p" /\ mi' = 1
  ELSE Goto("mwSent") /\ UNCHANGED <<tier, mi>>

MwRoute ==
  /\ pc = "mwRoute"
  /\ IF mi > Len(MiddlewareList) \/ ~continueProcessingMiddlewares
       THEN LeaveTier /\ ci' = ci
       ELSE Goto("mwCb") /\ ci' = 1 /\ UNCHANGED <<tier, mi>>
  /\ UNCHANGED <<hk, flagVars, route, matchedRoute, requestParams, tableVars, callerVars, matchVars, log>>

MwCb ==
  /\ pc = "mwCb"
  /\ IF ci > Len(MiddlewareList[mi].callbackIndexes)
       THEN /\ Goto("mwRoute") /\ mi' = mi + 1
            /\ UNCHANGED <<flagVars, log>>
       ELSE /\ pc' = "mwWait" /\ result' = result /\ mi' = mi
            /\ Invoke("mw", FALSE, MiddlewareRoute(MiddlewareList[mi]),
                      MiddlewareList[mi].callbackIndexes[ci])
  /\ UNCHANGED <<tier, hk, ci, route, matchedRoute, requestParams, tableVars, callerVars, matchVars>>

MwResume ==
  /\ pc = "mwWait"
  /\ Settled(promise)
  /\ IF promise.state = "rejected"
       THEN Settle(Rejected(promise.err)) /\ UNCHANGED <<tier, hk, mi, ci, engineFlags>>
     ELSE IF promise.val = "end-routing"
       THEN /\ EndRouting(MiddlewareRoute(MiddlewareList[mi]))
            /\ Goto("final") /\ UNCHANGED <<tier, hk, mi, ci>>
     ELSE IF promise.val = "skip-middlewares"
       THEN /\ continueProcessingMiddlewares' = FALSE
            /\ LeaveTier
            /\ UNCHANGED <<hk, ci, continueProcessingRouteHandlers, matchedRoute, requestParams>>
     ELSE IF promise.val = "continue-handlers"
       THEN Goto("hTop") /\ hk' = hk + 1 /\ UNCHANGED <<tier, mi, ci, engineFlags>>
     ELSE Goto("mwCb") /\ ci' = ci + 1 /\ UNCHANGED <<tier, hk, mi, engineFlags>>
  /\ UNCHANGED <<callbackFlags, route, tableVars, callerVars, matchVars, log>>

\* after both middleware loops: `if (response.headersSent) return matchedRoute || true`
MwSent ==
  /\ pc = "mwSent"
  /\ IF headersSent
       THEN Settle(ReturnMatchedOrTrue(matchedRoute)) /\ ci' = ci
       ELSE Goto("tCb") /\ ci' = 1
  /\ UNCHANGED <<tier, hk, mi, flagVars, route, matchedRoute, requestParams, tableVars, callerVars, matchVars, log>>

\* head of handleCallbackIterator: invoke the next callback of the candidate
TerminalCb ==
  /\ pc = "tCb"
  /\ IF ci > routes[matchedRoute].callbacks
       THEN Goto("hTop") /\ hk' = hk + 1 /\ UNCHANGED <<flagVars, log>>
     ELSE IF ~continueProcessingRouteHandlers
       THEN Settle(ReturnMatched(matchedRoute)) /\ UNCHANGED <<hk, flagVars, log>>
     ELSE /\ pc' = "tWait" /\ result' = result /\ hk' = hk
          /\ Invoke("t", ci = routes[matchedRoute].callbacks, matchedRoute, ci)
  /\ UNCHANGED <<tier, mi, ci, route, matchedRoute, requestParams, tableVars, callerVars, matchVars>>

TerminalResume ==
  /\ pc = "tWait"
  /\ Settled(promise)
  /\ IF promise.state = "rejected"
       THEN Settle(Rejected(promise.err)) /\ UNCHANGED <<hk, ci, engineFlags>>
     ELSE IF promise.val = "end-routing"
       THEN EndRouting(route) /\ Goto("final") /\ UNCHANGED <<hk, ci>>
     ELSE IF promise.val = "continue-handlers"
       THEN Goto("hTop") /\ hk' = hk + 1 /\ UNCHANGED <<ci, engineFlags>>
     ELSE Goto("tCb") /\ ci' = ci + 1 /\ UNCHANGED <<hk, engineFlags>>
  /\ UNCHANGED <<tier, mi, callbackFlags, route, tableVars, callerVars, matchVars, log>>

\* a faulty variant: the final return forgets the matched route
FinalReturnsUndefined ==
  /\ pc = "final"
  /\ Settle(Undefined)
  /\ UNCHANGED <<tier, hk, mi, ci, flagVars, route, matchedRoute, requestParams, tableVars, callerVars, matchVars, log>>

\* a faulty variant: the final return hands out the last candidate tried
\* without asking whether a response was sent
FinalReturnsMatched ==
  /\ pc = "final"
  /\ Settle(ReturnMatched(matchedRoute))
  /\ UNCHANGED <<tier, hk, mi, ci, flagVars, route, matchedRoute, requestParams, tableVars, callerVars, matchVars, log>>

\* `if (matchedRoute && response.headersSent) return matchedRoute; return undefined`
Final ==
  /\ pc = "final"
  /\ Settle(IF matchedRoute # 0 /\ headersSent THEN Matched(matchedRoute) ELSE Undefined)
  /\ UNCHANGED <<tier, hk, mi, ci, flagVars, route, matchedRoute, requestParams, tableVars, callerVars, matchVars, log>>

\* ---- callbacks that went on after an await

EngineReady == pc \in WaitStates /\ Settled(promise)

\* a suspended callback resumes and runs to its end
CallbackResume ==
  \E f \in frames, prog \in Continuations :
    /\ f.outcome = ""
    /\ LET run == RunSegment(Ctx(f.id, f.called), prog)
           ready == pc \in WaitStates /\ Settled(run.ctx.promise)
       IN IF ready
            THEN /\ SetCtx(run.ctx)
                 /\ frames' = (frames \ {f}) \cup
                      {[f EXCEPT !.called = run.ctx.called, !.outcome = run.outcome]}
            ELSE /\ SetCtx(PostProcess(run.ctx, f.kind, f.last, run.outcome))
                 /\ frames' = frames \ {f}
    /\ UNCHANGED <<tableVars, callerVars, matchVars, posVars, route, matchedRoute, requestParams, result, log>>

\* the code after `await handler(...)` of a callback that ended while handle()
\* was about to continue: handle() continues first
CallbackPost ==
  \E f \in frames :
    /\ f.outcome # ""
    /\ ~EngineReady
    /\ SetCtx(PostProcess(Ctx(f.id, f.called), f.kind, f.last, f.outcome))
    /\ frames' = frames \ {f}
    /\ UNCHANGED <<tableVars, callerVars, matchVars, posVars, route, matchedRoute, requestParams, result, log>>

Next ==
  \/ \E option \in RouteOptions : SetRoute(option)
  \/ \E option \in UseOptions : Use(option)
  \/ \E req \in Requests : Handle(req)
  \/ NtRoute \/ NtCb \/ NtResume \/ NtAfter
  \/ HandleTop \/ MwRoute \/ MwCb \/ MwResume \/ MwSent
  \/ TerminalCb \/ TerminalResume \/ Final
  \/ CallbackResume \/ CallbackPost

Spec == Init /\ [][Next]_vars

\* ---- a router whose route table is complete before the first handle() call;
\* the request keeps a note of whether its key was in the cache at the call
Noted(req) ==
  [host |-> req.host, method |-> req.method, url |-> req.url,
   cached |-> CacheKey(req) \in DOMAIN routeCacheRouteHandlers]

FrozenNext ==
  \/ \E option \in RouteOptions : ~hasSetGlobalMiddlewares /\ SetRoute(option)
  \/ \E option \in UseOptions : ~hasSetGlobalMiddlewares /\ Use(option)
  \/ \E req \in Requests : Handle(Noted(req))
  \/ NtRoute \/ NtCb \/ NtResume \/ NtAfter
  \/ HandleTop \/ MwRoute \/ MwCb \/ MwResume \/ MwSent
  \/ TerminalCb \/ TerminalResume \/ Final
  \/ CallbackResume \/ CallbackPost

FrozenSpec == Init /\ [][FrozenNext]_vars

\* ---- one handle() call on a fixed table, with the event loop running whatever
\* is ready: the loops of handle() go on, and a callback suspended at an await
\* comes back

RoutePrefixes == {SubSeq(t, 1, n) : t \in RouteTables, n \in 0..3}

TerminationInit == \E table \in RoutePrefixes : Constructed(table)

\* a step of a handle() call in flight or of one of its callbacks
EngineStep ==
  \/ NtRoute \/ NtCb \/ NtResume \/ NtAfter
  \/ HandleTop \/ MwRoute \/ MwCb \/ MwResume \/ MwSent
  \/ TerminalCb \/ TerminalResume \/ Final
  \/ CallbackResume \/ CallbackPost

\* one call, for GET /a
TerminationRequests == {req \in Requests : req.url = UrlA}

TerminationNext ==
  \/ \E req \in TerminationRequests : pc = "idle" /\ Handle(req)
  \/ NtRoute \/ NtCb \/ NtResume \/ NtAfter
  \/ HandleTop \/ MwRoute \/ MwCb \/ MwResume \/ MwSent
  \/ TerminalCb \/ TerminalResume \/ Final
  \/ CallbackResume \/ CallbackPost

TerminationSpec ==
  TerminationInit /\ [][TerminationNext]_vars /\ WF_vars(EngineStep)

\* ---- two calls in flight, each with its own locals: the declarations
\* `let errorThrown ...` to `let matchedRoute` and nextFnGenerator stand inside
\* handle(), request and response are the arguments of the call

\* the locals of the call that the event loop is running
Locals ==
  [request |-> request,
   matchedGlobalMiddlewares |-> matchedGlobalMiddlewares,
   matchedRouteMiddlewares |-> matchedRouteMiddlewares,
   matchedRouteHandlers |-> matchedRouteHandlers,
   pc |-> pc, tier |-> tier, hk |-> hk, mi |-> mi, ci |-> ci,
   continueProcessingMiddlewares |-> continueProcessingMiddlewares,
   continueProcessingRouteHandlers |-> continueProcessingRouteHandlers,
   errorThrown |-> errorThrown, headersSent |-> headersSent, promise |-> promise,
   route |-> route, matchedRoute |-> matchedRoute, requestParams |-> requestParams, frames |-> frames,
   result |-> result, log |-> log]

\* a faulty variant: the flags and the recorded error are kept by the router,
\* one set for all calls
ResumeOnSharedFlags(c) ==
  /\ continueProcessingMiddlewares' = continueProcessingMiddlewares
  /\ continueProcessingRouteHandlers' = continueProcessingRouteHandlers
  /\ errorThrown' = errorThrown
  /\ matchedRoute' = matchedRoute

\* the closure of the call that goes on holds its own flags, error and match
Resume(c) ==
  /\ continueProcessingMiddlewares' = c.continueProcessingMiddlewares
  /\ continueProcessingRouteHandlers' = c.continueProcessingRouteHandlers
  /\ errorThrown' = c.errorThrown
  /\ matchedRoute' = c.matchedRoute

\* the call that runs waits for a callback that is suspended itself while the
\* other call has not begun, or it has settled while the other call waits
AtAwait ==
  \/ pc \in WaitStates /\ frames # {} /\ suspended.pc = "idle"
  \/ pc = "done" /\ suspended.pc \in WaitStates

\* the event loop leaves the call that runs at its await and goes on with the
\* other call
Switch ==
  /\ AtAwait
  /\ suspended' = Locals
  /\ Resume(suspended)
  /\ request' = suspended.request
  /\ requestParams' = suspended.requestParams
  /\ matchedGlobalMiddlewares' = suspended.matchedGlobalMiddlewares
  /\ matchedRouteMiddlewares' = suspended.matchedRouteMiddlewares
  /\ matchedRouteHandlers' = suspended.matchedRouteHandlers
  /\ pc' = suspended.pc /\ tier' = suspended.tier /\ hk' = suspended.hk
  /\ mi' = suspended.mi /\ ci' = suspended.ci
  /\ headersSent' = suspended.headersSent
  /\ promise' = suspended.promise
  /\ route' = suspended.route
  /\ frames' = suspended.frames
  /\ result' = suspended.result
  /\ log' = suspended.log
  /\ UNCHANGED <<tableVars, registrationError, serverVars, uploadVars, bodyVars,
                 quietVars>>

\* the tables and the callbacks of the two calls: a table without and one
\* with a terminal route for the request; until the second call is entered the
\* callbacks pass on, respond, skip, pass an error, or pass on and suspend;
\* from then on they pass on, skip, pass an error or respond
IsolationTables == {<<GlobalMw, PathMw>>, <<GlobalMw, PathMw, GetA>>}
IsolationBehaviours ==
  IF suspended.pc = "idle" \/ pc = "done"
    THEN { <<"next", "retF">>, <<"send", "retF">>, <<"skip", "retF">>,
           <<"nextErrObj", "retF">>, <<"next", "await">> }
    ELSE { <<"next", "retF">>, <<"skip", "retF">>, <<"nextErrObj", "retF">>,
           <<"send", "retF">> }

\* the callback invoked by this step, if any, is one of IsolationBehaviours
Modest == Len(log') > Len(log) => log'[Len(log')].prog \in IsolationBehaviours

IsolationInit == \E table \in IsolationTables : Constructed(table)

IsolationNext ==
  \/ \E req \in Requests : pc = "idle" /\ Handle(req)
  \/ NtRoute \/ (NtCb /\ Modest) \/ NtResume \/ NtAfter
  \/ HandleTop \/ MwRoute \/ (MwCb /\ Modest) \/ MwResume \/ MwSent
  \/ (TerminalCb /\ Modest) \/ TerminalResume \/ Final
  \/ CallbackResume \/ CallbackPost
  \/ Switch

IsolationSpec == IsolationInit /\ [][IsolationNext]_vars

\* ---- calls that overlap: handle() is entered for a request while the call
\* for an earlier request waits for a callback. The call followed further is
\* the one entered last; what is left of the earlier call works on its own
\* local variables and its own response, and reads no cache.

\* the request, with a note of whether a call was in flight when it came
Overlapping(req) ==
  [host |-> req.host, method |-> req.method, url |-> req.url,
   overlaps |-> ~NoCallInFlight]

\* the callbacks of overlapping calls pass on, respond, throw or suspend
ConcurrentBehaviours ==
  { <<"next", "retF">>, <<"send", "retF">>, <<"throwObj">>, <<"next", "await">>, <<"await">> }

\* the callback invoked by this step, if any, is one of ConcurrentBehaviours
Plain == Len(log') > Len(log) => log'[Len(log')].prog \in ConcurrentBehaviours

ConcurrentNext ==
  \/ \E option \in RouteOptions : ~hasSetGlobalMiddlewares /\ SetRoute(option)
  \/ \E option \in UseOptions : ~hasSetGlobalMiddlewares /\ Use(option)
  \/ \E req \in Requests : Enter(Overlapping(req))
  \/ NtRoute \/ (NtCb /\ Plain) \/ NtResume \/ NtAfter
  \/ HandleTop \/ MwRoute \/ (MwCb /\ Plain) \/ MwResume \/ MwSent
  \/ (TerminalCb /\ Plain) \/ TerminalResume \/ Final
  \/ CallbackResume \/ CallbackPost

ConcurrentSpec == Init /\ [][ConcurrentNext]_vars

\* ---- the server layers: fetch() of BunHttpAdapter.listen and of
\* BunWebSocket.getOrCreateWebsocketServer, from the outcome of handle() on

\* the server layers as configured: the http adapter with its not-found
\* handlers and its requestTimeout (0, the default, disables the timeout),
\* and the websocket server, whose timeout is always set
Servers ==
  { [layer |-> "adapter", notFoundHandlers |-> n, requestTimeout |-> t] :
      n \in 0..MaxNotFoundHandlers, t \in BOOLEAN }
  \cup { [layer |-> "websocket", notFoundHandlers |-> 0, requestTimeout |-> TRUE] }

\* how handle() can come out, with whether the response was produced by then
HandleOutcomes ==
  { <<Undefined, FALSE>>, <<Undefined, TRUE>>, <<ResolvedTrue, TRUE>> }
  \cup { <<Matched(m), sent>> : m \in 1..2, sent \in BOOLEAN }
  \cup { <<Rejected(e), sent>> :
           e \in {ThrownError, PassedError, PassedString},
           sent \in BOOLEAN }

\* what a not-found handler does: answer, return a truthy value, return nothing
NotFoundBehaviours == {"send", "retT", "retF"}

NoAnswer == [kind |-> "none", status |-> 0, statusText |-> "", err |-> NoError]
\* `return nativeResponse`: the response the callbacks produced
Native == [kind |-> "native", status |-> 0, statusText |-> "", err |-> NoError]
\* `new Response(undefined, {status, statusText})`
Response(status, statusText) ==
  [kind |-> "response", status |-> status, statusText |-> statusText, err |-> NoError]
\* fetch() throws, the error goes to error(err)
Throws(e) == [kind |-> "throws", status |-> 0, statusText |-> "", err |-> e]
\* getNativeResponse never settles: no response and no timeout
Hangs == [kind |-> "hangs", status |-> 0, statusText |-> "", err |-> NoError]
RequestTimedout == Value("object", "Request Timedout")

\* `if (!isObject(err)) err = new Error(String(e))`
CoerceError(e) == IF IsObject(e) THEN e ELSE Value("object", <<"new Error", e[2]>>)

\* res.getNativeResponse(timeout)
GetNativeResponse(produced, timeout) ==
  IF produced THEN Native
  ELSE IF timeout THEN Throws(RequestTimedout)
  ELSE Hangs

\* the not-found handlers run in turn while the one before returned a truthy
\* value; TRUE when one that ran produced the response
RECURSIVE NotFoundSends(_, _)
NotFoundSends(progs, i) ==
  IF i > Len(progs) THEN FALSE
  ELSE IF progs[i] = "send" THEN TRUE
  ELSE IF progs[i] = "retF" THEN FALSE
  ELSE NotFoundSends(progs, i + 1)

\* the `return new Response(undefined, {status, statusText: "Not Found"})` of a layer
NotFoundResponse(layer) ==
  IF layer = "adapter" THEN Response(400, "Not Found") ELSE Response(404, "Not Found")

\* fetch(nativeRequest, server), from the settling of handle() on
Fetch ==
  /\ answer = NoAnswer
  /\ \E progs \in [1..server.notFoundHandlers -> NotFoundBehaviours] :
       LET produced == nativeResponse \/ NotFoundSends(progs, 1) IN
       IF routeUsed.kind = "rejected"
         THEN answer' = Throws(CoerceError(routeUsed.err)) /\ nativeResponse' = nativeResponse
       ELSE IF routeUsed.kind \in {"matched", "true"}
         THEN /\ answer' = GetNativeResponse(nativeResponse, server.requestTimeout)
              /\ nativeResponse' = nativeResponse
       ELSE IF server.layer = "adapter" /\ server.notFoundHandlers > 0
         THEN /\ answer' = GetNativeResponse(produced, server.requestTimeout)
              /\ nativeResponse' = produced
       ELSE answer' = NotFoundResponse(server.layer) /\ nativeResponse' = nativeResponse
  /\ UNCHANGED <<tableVars, matchVars, posVars, flagVars, route, matchedRoute, requestParams,
                 frames, result, log, registrationError, server, routeUsed,
                 uploadVars, bodyVars, extraVars>>

ServerInit ==
  \E srv \in Servers, outcome \in HandleOutcomes :
    /\ server = srv
    /\ routeUsed = outcome[1]
    /\ nativeResponse = outcome[2]
    /\ answer = NoAnswer
    /\ RouterConstructed(<<>>)
    /\ NoUpload
    /\ NoBody
    /\ NoExtras

ServerNext == Fetch

ServerSpec == ServerInit /\ [][ServerNext]_vars

\* ---- the multipart handlers: handleMultipartFileFields with one declared
\* field, and handleMultipartMultipleFiles

\* an upload: the files sent in the declared field that filterUpload keeps and
\* those it drops, whether a file came in a field that is not declared, and
\* the maxCount of the declared field
Uploads ==
  { [handler |-> h, kept |-> k, filtered |-> f, foreign |-> o, maxCount |-> m] :
      h \in {"fields", "multiple"}, k \in 0..MaxFiles, f \in 0..1,
      o \in BOOLEAN, m \in 1..MaxFiles }

\* `files[fieldname].length + 1 > maxCount`
OverMaxCount(length, maxCount) == length + 1 > maxCount

\* handleMultipartFileFields: the checks run for every field that received a
\* file, in the order the fields came; a file in a field that is not declared
\* came first
HandleMultipartFileFields(u) ==
  IF u.foreign THEN "BadRequest: field doesn't accept files"
  ELSE IF u.kept + u.filtered > 0 /\ OverMaxCount(u.kept, u.maxCount)
    THEN "BadRequest: field accepts max files"
  ELSE "accepted"

\* handleMultipartMultipleFiles
HandleMultipartMultipleFiles(u) ==
  IF u.foreign THEN "BadRequest: only field accepts files"
  ELSE IF OverMaxCount(u.kept, u.maxCount) THEN "BadRequest: field accepts max files"
  ELSE "accepted"

HandleUpload ==
  /\ uploadResult = "none"
  /\ uploadResult' = IF upload.handler = "fields" THEN HandleMultipartFileFields(upload)
                                                 ELSE HandleMultipartMultipleFiles(upload)
  /\ UNCHANGED <<tableVars, matchVars, posVars, flagVars, route, matchedRoute, requestParams,
                 frames, result, log, registrationError, serverVars, upload, bodyVars,
                 extraVars>>

UploadInit ==
  \E u \in Uploads :
    /\ upload = u
    /\ uploadResult = "none"
    /\ RouterConstructed(<<>>)
    /\ server = [layer |-> "none", notFoundHandlers |-> 0, requestTimeout |-> FALSE]
    /\ routeUsed = Pending
    /\ nativeResponse = FALSE
    /\ answer = NoAnswer
    /\ NoBody
    /\ NoExtras

UploadSpec == UploadInit /\ [][HandleUpload]_vars

\* ---- BunRequest.handleBodyParsing

\* the texts of the bodies: a JSON object, a form, a JSON number, nothing,
\* and bytes that are no text
BodyTexts == {"{\"key\":\"value\"}", "key=value", "123", "", "\\xff\\xfe"}

ContentTypes ==
  {"", "text/plain", "application/octet-stream", "application/json",
   "application/x-www-form-urlencoded"}

Incomings ==
  [text : BodyTexts, header : ContentTypes, bodyUsed : BOOLEAN, canHandleUpload : BOOLEAN]

Body(type, value) == [type |-> type, value |-> value]
ParseFails == Body("fails", "")

\* JSON.parse: any JSON text parses, a scalar included
JsonParse(text) ==
  CASE text = "{\"key\":\"value\"}" -> Body("json", "{key: 'value'}")
    [] text = "123" -> Body("json", "123")
    [] OTHER -> ParseFails

\* qs.parse followed by the test that the result is an object: qs makes an
\* object of any text, a key without "=" getting the value ''; what it does
\* with bytes that are no text is the library's to decide
QsParse(text) ==
  CASE text = "key=value" -> {Body("form", "{key: 'value'}")}
    [] text = "" -> {Body("form", "{}")}
    [] text = "123" -> {Body("form", "{123: ''}")}
    [] text = "{\"key\":\"value\"}" -> {Body("form", "{'{\"key\":\"value\"}': ''}")}
    [] OTHER -> {Body("form", "{'\\xff\\xfe': ''}"), ParseFails}

Parsed(body, contentType, header) ==
  [body |-> body, contentType |-> contentType, header |-> header, parsed |-> TRUE]

\* handleJsoonBodyParsing
HandleJsoonBodyParsing(text) ==
  IF JsonParse(text) # ParseFails
    THEN {Parsed(JsonParse(text), "json", "application/json")}
    ELSE {}

\* handleUrlFormEncodingParsing
HandleUrlFormEncodingParsing(text) ==
  {Parsed(b, "form", "application/x-www-form-urlencoded") : b \in QsParse(text) \ {ParseFails}}

LeaveAsBuffer(text) == Parsed(Body("buffer", text), "buffer", "application/octet-stream")

OrElse(first, second) == IF first # {} THEN first ELSE second

\* a faulty variant: the form parser is tried before the JSON parser
ParseFormFirst(text) ==
  LET form == HandleUrlFormEncodingParsing(text)
      formFails == IF ParseFails \in QsParse(text)
                     THEN OrElse(HandleJsoonBodyParsing(text), {LeaveAsBuffer(text)})
                     ELSE {}
  IN  form \cup formFails

\* the branch of handleBodyParsing for a request without a Content-Type
ParseWithoutContentType(text) ==
  LET form == HandleUrlFormEncodingParsing(text)
      formFails == IF ParseFails \in QsParse(text) THEN {LeaveAsBuffer(text)} ELSE {}
  IN  OrElse(HandleJsoonBodyParsing(text), form \cup formFails)

\* the branches for a request with a Content-Type
ParseWithContentType(text, header, was) ==
  LET done == [was EXCEPT !.parsed = TRUE]
  IN  CASE header = "text/plain" -> {[done EXCEPT !.body = Body("text", text)]}
        [] header = "application/octet-stream" -> {[done EXCEPT !.body = Body("buffer", text)]}
        [] header = "application/json" -> OrElse(HandleJsoonBodyParsing(text), {done})
        [] header = "application/x-www-form-urlencoded" ->
             HandleUrlFormEncodingParsing(text)
               \cup (IF ParseFails \in QsParse(text) THEN {done} ELSE {})
        [] OTHER -> {LeaveAsBuffer(text)}

HandleBodyParsing ==
  /\ ~parsedBody.parsed
  /\ LET was == [parsedBody EXCEPT !.header = incoming.header]
     IN  parsedBody' \in
           IF incoming.bodyUsed \/ ~incoming.canHandleUpload
             THEN {[was EXCEPT !.parsed = TRUE]}
           ELSE IF incoming.header = ""
             THEN ParseWithoutContentType(incoming.text)
             ELSE ParseWithContentType(incoming.text, incoming.header, was)
  /\ UNCHANGED <<tableVars, matchVars, posVars, flagVars, route, matchedRoute, requestParams,
                 frames, result, log, registrationError, serverVars, uploadVars, incoming,
                 extraVars>>

BodyInit ==
  \E i \in Incomings :
    /\ incoming = i
    /\ parsedBody = [body |-> Body("none", ""), contentType |-> "", header |-> "", parsed |-> FALSE]
    /\ RouterConstructed(<<>>)
    /\ server = [layer |-> "none", notFoundHandlers |-> 0, requestTimeout |-> FALSE]
    /\ routeUsed = Pending
    /\ nativeResponse = FALSE
    /\ answer = NoAnswer
    /\ NoUpload
    /\ NoExtras

BodySpec == BodyInit /\ [][HandleBodyParsing]_vars

\* ---- the selection of the candidates alone: a router on which a table of
\* terminal routes was registered takes one handle() call
SortInit == \E table \in SortTables : Constructed(table)

SortNext == \E req \in SortRequests : Handle(req)

SortSpec == SortInit /\ [][SortNext]_vars

\* ------------------------------------------------------------ BunResponse

\* how many calls one BunResponse receives, and the largest timeout in ms
MaxCalls == 3
MaxTimeout == 2

NoNative == [by |-> "none", n |-> 0]

\* get headersSent: !!upgradeToWsData || !!response || !!isLongLived; the
\* socket keeps alive only once initLongLivedConnection() has run
HeadersSent(r) == r.upgradeToWsData \/ r.response # NoNative \/ r.isLongLived

\* the native response the call now being made constructs
Made(by) == [by |-> by, n |-> bunRes.calls + 1]

MayCall == bunRes.calls < MaxCalls

\* this.response = ...; every call is counted
Assign(by) == bunRes' = [bunRes EXCEPT !.response = Made(by), !.calls = @ + 1]
Returns == bunRes' = [bunRes EXCEPT !.calls = @ + 1]

\* send(): `if (this.headersSent) return this`
SendReturnsEarly(r) == HeadersSent(r)

\* send(body) with a body that needs no await before `this.response = ...`
SendBody ==
  /\ MayCall
  /\ IF SendReturnsEarly(bunRes) THEN Returns ELSE Assign("send")
  /\ UNCHANGED <<baseVars, poll, adapter, ws, storage>>

\* send(text) without a Content-Type: past the guard the call awaits
\* fileTypeFromBuffer() before it assigns the response
SendText ==
  /\ MayCall
  /\ IF SendReturnsEarly(bunRes)
       THEN Returns
       ELSE bunRes' = [bunRes EXCEPT !.sending = @ \cup {bunRes.calls + 1}, !.calls = @ + 1]
  /\ UNCHANGED <<baseVars, poll, adapter, ws, storage>>

\* the awaited call of a send(text) comes back: this.response = new Response(...)
SendTextResumes ==
  \E n \in bunRes.sending :
    /\ bunRes' = [bunRes EXCEPT !.response = [by |-> "send", n |-> n], !.sending = @ \ {n}]
    /\ UNCHANGED <<baseVars, poll, adapter, ws, storage>>

\* json(body): this.response = Response.json(body, this.options)
Json ==
  /\ MayCall
  /\ Assign("json")
  /\ UNCHANGED <<baseVars, poll, adapter, ws, storage>>

\* redirect(url, status): this.response = Response.redirect(url, status)
Redirect ==
  /\ MayCall
  /\ Assign("redirect")
  /\ UNCHANGED <<baseVars, poll, adapter, ws, storage>>

\* end(body): a long lived connection is closed, anything else is send(body)
End ==
  /\ MayCall
  /\ IF bunRes.isLongLived \/ SendReturnsEarly(bunRes) THEN Returns ELSE Assign("end")
  /\ UNCHANGED <<baseVars, poll, adapter, ws, storage>>

\* sendStatus(status): guarded by headersSent
SendStatus ==
  /\ MayCall
  /\ IF HeadersSent(bunRes) THEN Returns ELSE Assign("sendStatus")
  /\ UNCHANGED <<baseVars, poll, adapter, ws, storage>>

\* handleNotFound(): guarded by headersSent
HandleNotFound ==
  /\ MayCall
  /\ IF HeadersSent(bunRes) THEN Returns ELSE Assign("handleNotFound")
  /\ UNCHANGED <<baseVars, poll, adapter, ws, storage>>

\* sendFile(path): a missing file is handleNotFound(); the response is
\* assigned right after `if (this.headersSent) return this`
SendFile ==
  /\ MayCall
  /\ \E exists \in BOOLEAN :
       IF HeadersSent(bunRes) THEN Returns
       ELSE IF exists THEN Assign("sendFile") ELSE Assign("handleNotFound")
  /\ UNCHANGED <<baseVars, poll, adapter, ws, storage>>

\* upgradeToWebsocket(data): _upgradeToWsData = data || {}
UpgradeToWebsocket ==
  /\ MayCall
  /\ bunRes' = [bunRes EXCEPT !.upgradeToWsData = TRUE, !.calls = @ + 1]
  /\ UNCHANGED <<baseVars, poll, adapter, ws, storage>>

\* initLongLivedConnection(): once only; it sets _isLongLived and assigns
\* the streaming response
InitLongLivedConnection ==
  /\ MayCall
  /\ IF bunRes.isLongLived THEN Returns
     ELSE bunRes' = [bunRes EXCEPT !.isLongLived = TRUE,
                                   !.response = Made("initLongLivedConnection"),
                                   !.calls = @ + 1]
  /\ UNCHANGED <<baseVars, poll, adapter, ws, storage>>

\* the timeout argument: undefined (HTTP_REQUEST_TIMEOUT is not numeric), 0 or
\* a positive number of milliseconds
Timeouts == {[numeric |-> FALSE, value |-> 0]} \cup
            {[numeric |-> TRUE, value |-> t] : t \in 0..MaxTimeout}

\* const enableTimeout = isNumeric(timeout) && Number(timeout) > 0
EnableTimeout(timeout) == timeout.numeric /\ timeout.value > 0

\* elapsedTime > timeout; a comparison with undefined is false
Elapsed(elapsedTime, timeout) == timeout.numeric /\ elapsedTime > timeout.value

\* getNativeResponse(timeout): the promise and its interval of 1 ms
PollNativeResponse ==
  /\ poll.state = "none"
  /\ \E timeout \in Timeouts :
       poll' = [state |-> "pending", timeout |-> timeout, elapsedTime |-> 0,
                resolved |-> NoNative]
  /\ UNCHANGED <<baseVars, bunRes, adapter, ws, storage>>

\* a faulty variant of the interval callback: the elapsed time is counted
\* whether or not the timeout is enabled
TickCountsAlways(p, response) ==
  IF response # NoNative
    THEN [p EXCEPT !.state = "resolved", !.resolved = response]
    ELSE IF Elapsed(p.elapsedTime, p.timeout)
           THEN [p EXCEPT !.state = "rejected"]
           ELSE [p EXCEPT !.elapsedTime = @ + 1]

\* the interval callback: resolve with this.response, else reject with
\* "Request Timedout" once the elapsed time is over the timeout, else count
IntervalTick(p, response) ==
  IF response # NoNative
    THEN [p EXCEPT !.state = "resolved", !.resolved = response]
    ELSE IF Elapsed(p.elapsedTime, p.timeout)
           THEN [p EXCEPT !.state = "rejected"]
           ELSE IF EnableTimeout(p.timeout)
                  THEN [p EXCEPT !.elapsedTime = @ + 1]
                  ELSE p

Tick ==
  /\ poll.state = "pending"
  /\ poll' = IntervalTick(poll, bunRes.response)
  /\ UNCHANGED <<baseVars, bunRes, adapter, ws, storage>>

ResponseInit == Constructed(<<>>)

ResponseNext ==
  \/ SendBody \/ SendText \/ SendTextResumes \/ Json \/ Redirect \/ End
  \/ SendStatus \/ HandleNotFound \/ SendFile
  \/ UpgradeToWebsocket \/ InitLongLivedConnection
  \/ PollNativeResponse \/ Tick

\* setInterval keeps calling the callback until clearInterval
ResponseSpec == ResponseInit /\ [][ResponseNext]_vars /\ WF_vars(Tick)

\* --------------------------------------------------------- BunHttpAdapter

\* how many times the body parser is asked for on one adapter
MaxRegistrations == 3

NoPrefix == ""
Prefixes == {NoPrefix, "/api"}

\* registerBodyParser(prefix, rawBody, options): the guard reads
\* _hasRegisteredBodyParser, which nothing ever assigns; then
\* this.use(prefix, middlewareHandler) or this.use(middlewareHandler)
RegisterBodyParser(prefix, rawBody) ==
  IF adapter.hasRegisteredBodyParser
    THEN adapter' = adapter
    ELSE adapter' = [adapter EXCEPT !.registered =
                       Append(@, [prefix |-> prefix, rawBody |-> rawBody])]

\* useBodyParser(type, rawBody, options)
UseBodyParser ==
  /\ Len(adapter.registered) < MaxRegistrations
  /\ \E rawBody \in BOOLEAN : RegisterBodyParser(NoPrefix, rawBody)
  /\ UNCHANGED <<baseVars, bunRes, poll, ws, storage>>

\* registerParserMiddleware(prefix, rawBody)
RegisterParserMiddleware ==
  /\ Len(adapter.registered) < MaxRegistrations
  /\ \E prefix \in Prefixes, rawBody \in BOOLEAN : RegisterBodyParser(prefix, rawBody)
  /\ UNCHANGED <<baseVars, bunRes, poll, ws, storage>>

\* the body parsers registered with use(handler): global middleware
GlobalParsers ==
  {i \in 1..Len(adapter.registered) : adapter.registered[i].prefix = NoPrefix}

\* a request is dispatched: each global middleware of the parser calls
\* req.handleBodyParsing(true, options), then next()
DispatchRequest ==
  /\ adapter' = [adapter EXCEPT !.parsed = Cardinality(GlobalParsers)]
  /\ UNCHANGED <<baseVars, bunRes, poll, ws, storage>>

AdapterInit == Constructed(<<>>)
AdapterNext == UseBodyParser \/ RegisterParserMiddleware \/ DispatchRequest
AdapterSpec == AdapterInit /\ [][AdapterNext]_vars

\* ----------------------------------------------------------- BunWebSocket

\* how many handlers one path holds
MaxHandlers == 2

WsEvents == {"open", "message", "close", "ping", "pong", "drain"}

\* the handlers given to setRouteHandler: two WebSocketHandler objects with a
\* callback for every event, one with callbacks for open and close only, and
\* a function that carries callbacks as properties
WsHandlers ==
  { [id |-> "chat", kind |-> "object", events |-> WsEvents],
    [id |-> "log", kind |-> "object", events |-> WsEvents],
    [id |-> "presence", kind |-> "object", events |-> {"open", "close"}],
    [id |-> "fn", kind |-> "function", events |-> WsEvents] }

\* lodash isFunction(handler): an object of callbacks is not a function
IsFunction(handler) == handler.kind = "function"

Includes(arr, x) == \E i \in 1..Len(arr) : arr[i] = x

\* setRouteHandler(path, handler): if (!handlersArr.includes(handler))
\* handlersArr.push(handler); _routeHandlers.set(path, handlersArr)
SetRouteHandler ==
  \E path \in WsPaths, handler \in WsHandlers :
    /\ Len(ws.routeHandlers[path]) < MaxHandlers \/ Includes(ws.routeHandlers[path], handler)
    /\ ws' = [ws EXCEPT !.routeHandlers[path] =
                IF Includes(@, handler) THEN @ ELSE Append(@, handler)]
    /\ UNCHANGED <<baseVars, bunRes, poll, adapter, storage>>

\* what the map() over handlersArr calls for one handler: handlerToExecute is
\* handler[event]; the call is made if isFunction(handler), and it calls
\* `handler` itself
RECURSIVE HandlerCalls(_, _)
HandlerCalls(handlersArr, event) ==
  IF handlersArr = <<>> THEN <<>>
  ELSE LET handler == Head(handlersArr)
           handlerToExecute == event \in handler.events
       IN (IF handlerToExecute /\ IsFunction(handler)
             THEN <<[handler |-> handler.id, called |-> "handler"]>>
             ELSE <<>>)
          \o HandlerCalls(Tail(handlersArr), event)

\* _wsHandler.open / message / close / ping / pong / drain for a client of
\* the path: processRegisteredRouteHandlerFor(event, ws)
FireEvent ==
  \E event \in WsEvents, path \in WsPaths :
    /\ ws' = [ws EXCEPT
                !.fired = [event |-> event, path |-> path,
                           handlersArr |-> ws.routeHandlers[path]],
                !.invoked = HandlerCalls(ws.routeHandlers[path], event)]
    /\ UNCHANGED <<baseVars, bunRes, poll, adapter, storage>>

WebSocketInit == Constructed(<<>>)
WebSocketNext == SetRouteHandler \/ FireEvent
WebSocketSpec == WebSocketInit /\ [][WebSocketNext]_vars

\* ------------------------------------------------- multipart file storage

MultipartHandlers == {"any", "fields", "multiple"}

\* the map() callback up to its first await: handleMultipartMultipleFiles
\* returns at once for a file of another field and for every file after it
RECURSIVE StartTasks(_, _, _)
StartTasks(handler, foreign, hasInvalidFiles) ==
  IF foreign = <<>> THEN <<>>
  ELSE LET invalid == handler = "multiple" /\ (Head(foreign) \/ hasInvalidFiles)
       IN <<[foreign |-> Head(foreign),
             state |-> IF invalid THEN "skipped" ELSE "handleFile"]>>
          \o StartTasks(handler, Tail(foreign), invalid)

\* handleMultipartAnyFiles / FileFields / MultipleFiles up to
\* `await Promise.all(...)`: one task per file of the request
BeginUpload ==
  /\ storage.phase = "none"
  /\ \E handler \in MultipartHandlers, n \in 1..MaxFiles, maxCount \in 1..MaxFiles :
     \E foreign \in [1..n -> BOOLEAN] :
       storage' = [handler |-> handler, maxCount |-> maxCount,
                   task |-> StartTasks(handler, foreign, FALSE),
                   files |-> {}, stored |-> {}, forced |-> {}, phase |-> "all"]
  /\ UNCHANGED <<baseVars, bunRes, poll, adapter, ws>>

\* a task threw: Promise.all rejects at the first rejection, and the catch
\* block of the handler is entered
Rejects(phase) == IF phase = "all" THEN "catch" ELSE phase

\* `await options.storage.handleFile(fileRecord, req)` of one task comes
\* back: the file is stored, or the storage threw
HandleFileSettles ==
  \E i \in 1..Len(storage.task), ok \in BOOLEAN :
    /\ storage.task[i].state = "handleFile"
    /\ storage' =
         IF ok THEN [storage EXCEPT !.task[i].state = "filter", !.stored = @ \cup {i}]
         ELSE [storage EXCEPT !.task[i].state = "failed", !.phase = Rejects(@)]
    /\ UNCHANGED <<baseVars, bunRes, poll, adapter, ws>>

\* `await filterUpload(options, req, file)` of one task comes back: true and
\* the file is pushed, false and it is not, or the filter threw (or gave a
\* string) and filterUpload removed the file with force before rethrowing
FilterSettles ==
  \E i \in 1..Len(storage.task), filterResp \in {"true", "false", "throws"} :
    /\ storage.task[i].state = "filter"
    /\ storage' =
         CASE filterResp = "true" ->
                [storage EXCEPT !.task[i].state = "pushed", !.files = @ \cup {i}]
           [] filterResp = "false" ->
                [storage EXCEPT !.task[i].state = "filtered"]
           [] filterResp = "throws" ->
                [storage EXCEPT !.task[i].state = "rejected", !.stored = @ \ {i},
                                !.forced = @ \cup {i}, !.phase = Rejects(@)]
    /\ UNCHANGED <<baseVars, bunRes, poll, adapter, ws>>

TasksInFlight == {i \in 1..Len(storage.task) : storage.task[i].state \in {"handleFile", "filter"}}

\* the validation after Promise.all: a file of a field that accepts none, or
\* more files than maxCount allows
ValidationFails ==
  CASE storage.handler = "any" -> FALSE
    [] storage.handler = "fields" ->
         \/ \E i \in 1..Len(storage.task) : storage.task[i].foreign
         \/ OverMaxCount(Cardinality({i \in storage.files : ~storage.task[i].foreign}),
                         storage.maxCount)
    [] storage.handler = "multiple" ->
         \/ \E i \in 1..Len(storage.task) : storage.task[i].state = "skipped"
         \/ OverMaxCount(Cardinality(storage.files), storage.maxCount)

\* Promise.all resolved: every task came back without throwing
AllResolved ==
  /\ storage.phase = "all"
  /\ TasksInFlight = {}
  /\ storage' = [storage EXCEPT !.phase = IF ValidationFails THEN "catch" ELSE "returned"]
  /\ UNCHANGED <<baseVars, bunRes, poll, adapter, ws>>

\* catch: `await removeFiles(true)`, removeStorageFiles(storage, files, true)
\* for the files pushed so far
RemoveFiles ==
  /\ storage.phase = "catch"
  /\ storage' = [storage EXCEPT !.stored = @ \ storage.files,
                                !.forced = @ \cup storage.files,
                                !.phase = "unset"]
  /\ UNCHANGED <<baseVars, bunRes, poll, adapter, ws>>

\* catch: each(files, (_, key) => unset(files, key)); throw error
UnsetAndThrow ==
  /\ storage.phase = "unset"
  /\ storage' = [storage EXCEPT !.files = {}, !.phase = "thrown"]
  /\ UNCHANGED <<baseVars, bunRes, poll, adapter, ws>>

StorageInit == Constructed(<<>>)
StorageNext ==
  \/ BeginUpload \/ HandleFileSettles \/ FilterSettles
  \/ AllResolved \/ RemoveFiles \/ UnsetAndThrow
StorageSpec == StorageInit /\ [][StorageNext]_vars

\* ------------------------------------------------------------- properties

\* the callback invoked last by the call in flight
Last == log[Len(log)]
\* this step invokes a callback
Invokes == Len(log') > Len(log)
Invoked == log'[Len(log')]
Calls(prog, ops) == \E i \in 1..Len(prog) : prog[i] \in ops

\* C1: if a callback invoked by handle() threw, the promise returned by
\* handle() rejects; it never resolves to a MatchResult, true or undefined.
C1_ThrowRejects ==
  (pc = "done" /\ errorThrown \in ThrownValues) => result.kind = "rejected"

\* C2: after a callback has thrown, no further callback is invoked in that
\* handle() call.
C2_NoCallbackAfterThrow ==
  [][(errorThrown \in ThrownValues) => ~Invokes]_vars

\* C3: once response.headersSent is true, dispatch halts: no callback is
\* invoked afterwards in that handle() call, whether or not the callback that
\* sent the response also called next().
C3_HaltWhenSent ==
  [][headersSent => ~Invokes]_vars

TierRank(t) == CASE t = "g" -> 1 [] t = "p" -> 2 [] t = "t" -> 3

\* callback a of the history comes before callback b in its tier: an earlier
\* route of the table, or an earlier callback of the same route
InTierOrder(a, b) == a.route < b.route \/ (a.route = b.route /\ a.cb < b.cb)

\* C4 (as stated): over the whole handle() call every global-middleware
\* callback is invoked before any path-middleware callback, every
\* path-middleware callback before any terminal callback, and within a tier
\* the callbacks follow registration order and callback-array order.
C4_TierOrder ==
  \A i, j \in 1..Len(log) :
    i < j => /\ TierRank(log[i].tier) <= TierRank(log[j].tier)
             /\ log[i].tier = log[j].tier => InTierOrder(log[i], log[j])

\* C4 (amended): the order holds within each pass of handleIterator (one pass
\* per candidate terminal route, and the single pass of the no-terminal-route
\* branch): passes follow one another, within a pass global middleware comes
\* before path middleware before the candidate's callbacks, and within a tier
\* of a pass the callbacks follow registration order and callback-array order.
\* The middlewares run again in the pass of each later candidate.
C4_TierOrderPerPass ==
  \A i, j \in 1..Len(log) :
    i < j => /\ log[i].hk <= log[j].hk
             /\ log[i].hk = log[j].hk =>
                  /\ TierRank(log[i].tier) <= TierRank(log[j].tier)
                  /\ log[i].tier = log[j].tier => InTierOrder(log[i], log[j])

\* a second pass has begun with the global middleware after the callbacks of
\* the first candidate ran, and the second pass reached its own candidate
C4_Witness ==
  \E i, j, k \in 1..Len(log) :
    /\ i < j /\ j < k
    /\ log[i].tier = "t" /\ log[j].tier = "g" /\ log[k].tier = "t"
    /\ log[i].hk < log[j].hk /\ log[j].hk = log[k].hk

\* a callback suspended at an await: invoked and not yet returned
Executing(f) == f.outcome = ""

\* C5 (as stated): no two callbacks execute at the same time: the engine
\* invokes a callback only when no callback invoked earlier is still executing,
\* also when that earlier callback called next() before its asynchronous work
\* was finished.
C5_OneAtATime ==
  [][Invokes => \A f \in frames : ~Executing(f)]_vars

\* C5 (amended): the engine invokes the next callback only after the promise
\* built around the previous callback has settled, that is after the previous
\* callback has called next() or has returned or thrown; every callback still
\* executing at that moment has called next().  A callback that called next()
\* before finishing its asynchronous work therefore executes concurrently with
\* the callbacks invoked after it.
C5_InvokeAfterNextOrSettle ==
  [][(Invokes /\ Len(log) > 0) =>
       /\ promise.owner = Len(log)
       /\ promise.state # "pending"
       /\ \A f \in frames : Executing(f) => f.called]_vars

\* a callback that called next() is still suspended while a callback invoked
\* after it has been started
C5_Witness ==
  \E f \in frames : Executing(f) /\ f.called /\ f.id < Len(log)

\* the callback called next("skip")
Skipped(e) == Calls(e.prog, {"skip"})
\* the callback invoked by this step continues the route of the last one
SameRoute(a, b) == a.hk = b.hk /\ a.tier = b.tier /\ a.route = b.route /\ a.cb < b.cb

NextOps == {"next", "nextnext", "skip", "nextErrObj", "nextErrStr"}
ErrorOps == {"nextErrObj", "nextErrStr"}
\* the callback's first call to next is made by operation op
FirstCall(prog, op) ==
  \E i \in 1..Len(prog) :
    prog[i] = op /\ \A k \in 1..(i - 1) : prog[k] \notin NextOps
PassedBy(op) == IF op = "nextErrObj" THEN PassedError ELSE PassedString
\* handle() settles in this step
Settles == pc # "done" /\ pc' = "done"

C8_RejectsWithObject ==
  (pc = "done" /\ result.kind = "rejected") =>
    /\ IsObject(result.err)
    /\ result.err \in {ThrownError, PassedError,
                       ThrowError(ThrownString), ThrowError(PassedString)}

\* the promise of the callback invoked last was resolved by the "end-routing"
\* outcome of the code that follows the callback
EndedRouting ==
  /\ Len(log) > 0 /\ promise.owner = Len(log)
  /\ promise.state = "resolved" /\ promise.val = "end-routing"

\* handle() has resolved with the response sent
ResolvedSent == pc = "done" /\ headersSent /\ result.kind # "rejected"

\* C9 (as stated): when handle() ends with the response sent it resolves to
\* the MatchResult of the terminal route that was being processed, and to true
\* when no terminal route matched.
C9_SentResult ==
  ResolvedSent =>
    IF matchedRouteHandlers = <<>> THEN result = ResolvedTrue ELSE result = Matched(route)

\* C9 (amended): when a callback ended routing, handle() resolves to the
\* MatchResult of that callback's own route, a middleware route included,
\* whether a terminal route was being processed or none matched.  Otherwise
\* (the response was sent by a callback that went on with next()) it resolves
\* to the MatchResult of the candidate being processed or, when no terminal
\* route matched, to true, or to undefined if the response was only sent after
\* the last test of headersSent.
C9_SentResultIsEndingRoute ==
  ResolvedSent =>
    /\ EndedRouting => result = Matched(Last.route)
    /\ (~EndedRouting /\ matchedRouteHandlers # <<>>) => result = Matched(route)
    /\ (~EndedRouting /\ matchedRouteHandlers = <<>>) => result \in {ResolvedTrue, Undefined}

\* a middleware callback sent the response while a terminal route was being
\* processed, and handle() resolved to the middleware route's MatchResult
C9_Witness ==
  /\ ResolvedSent /\ EndedRouting
  /\ Last.tier \in {"g", "p"}
  /\ matchedRouteHandlers # <<>>
  /\ Last.route # route
  /\ result = Matched(Last.route)

\* C10: if the last callback of the last candidate terminal route neither
\* calls next() nor produces a response, handle() resolves to that route's
\* MatchResult.
C10_LastCallbackMatched ==
  (/\ pc = "done" /\ Len(log) > 0
   /\ Last.tier = "t"
   /\ Last.hk = Len(matchedRouteHandlers)
   /\ Last.cb = routes[Last.route].callbacks
   /\ Last.prog = <<"retF">>) => result = Matched(Last.route)

\* ---------------------------------------------------------------- C11

\* the latest invocation was the last callback of the last candidate
LastOfLastCandidate ==
  /\ Len(log) > 0
  /\ Last.tier = "t"
  /\ Last.hk = Len(matchedRouteHandlers)
  /\ Last.route = matchedRouteHandlers[Last.hk]
  /\ Last.cb = routes[Last.route].callbacks

\* C11: when handle() has tried every candidate terminal route down to the
\* last callback of the last one, that callback also passed on with next(),
\* no response was sent and no error was raised, handle() resolves to
\* undefined.
C11_AllPassOnUndefined ==
  (pc = "done" /\ LastOfLastCandidate /\ Last.prog = <<"next", "retF">>
     /\ ~headersSent /\ errorThrown = NoError)
    => result = Undefined

\* two candidates were tried, every callback passed on, nothing was sent
C11_Witness ==
  /\ pc = "done" /\ LastOfLastCandidate /\ Last.prog = <<"next", "retF">>
  /\ ~headersSent /\ errorThrown = NoError
  /\ continueProcessingMiddlewares
  /\ Len(matchedRouteHandlers) = 2
  /\ \E i \in 1..Len(log) : log[i].tier = "t" /\ log[i].hk = 1
  /\ result = Undefined

\* ---------------------------------------------------------------- C12

C12_WitnessEmptyTable == pc = "done" /\ routes = <<>> /\ result = Undefined

\* ---------------------------------------------------------------- C13

\* the latest invocation was the only callback of a terminal route, and it
\* sent a response
OnlyCallbackSent ==
  /\ Len(log) > 0
  /\ Last.tier = "t"
  /\ routes[Last.route].callbacks = 1
  /\ Last.prog = <<"send", "retF">>

\* C13: when the only callback of a terminal route sends a response, handle()
\* resolves to that route's MatchResult; the callbacks of the same pass invoked
\* before it are middleware callbacks, and when a global middleware matches,
\* the first callback of the call is a global-middleware callback.
C13_GlobalThenTerminal ==
  (pc = "done" /\ OnlyCallbackSent) =>
    /\ result = Matched(Last.route)
    /\ \A i \in 1..(Len(log) - 1) : log[i].hk = Last.hk => log[i].tier # "t"
    /\ matchedGlobalMiddlewares # <<>> => log[1].tier = "g"

\* both callbacks of a global middleware were invoked, then the terminal
\* callback, which sent the response
C13_Witness ==
  /\ pc = "done" /\ OnlyCallbackSent
  /\ Len(log) = 3
  /\ log[1].tier = "g" /\ log[2].tier = "g" /\ log[1].cb = 1 /\ log[2].cb = 2
  /\ errorThrown = NoError
  /\ result = Matched(Last.route)

\* ---------------------------------------------------------------- C14

\* the routes of the table that are global middleware
GlobalRoutes == {g \in 1..Len(routes) : IsGlobalMiddleware(routes[g])}

\* the routes in the list built by the first handle() call
ListedGlobalRoutes == {globalMiddlewares[i] : i \in 1..Len(globalMiddlewares)}

\* C14 (as stated): in every handle() call on a table that holds a global
\* middleware, wherever it was registered, the first callback invoked is a
\* global-middleware callback, and no global-middleware callback is invoked
\* after a path-middleware or terminal callback.
C14_GlobalAlwaysFirst ==
  (Len(log) > 0 /\ GlobalRoutes # {}) =>
    /\ log[1].tier = "g"
    /\ \A i, j \in 1..Len(log) : (i < j /\ log[j].tier = "g") => log[i].tier = "g"

\* C14 (amended): the callbacks invoked in the global tier belong to the
\* global middleware found in the table by the first handle() call; when that
\* list is not empty the first callback invoked by a handle() call is one of
\* them; and within one pass no global-middleware callback is invoked after a
\* path-middleware or terminal callback, wherever the middleware was registered.
C14_ListedGlobalFirstPerPass ==
  /\ \A i \in 1..Len(log) :
       log[i].tier = "g" => log[i].route \in (GlobalRoutes \cap ListedGlobalRoutes)
  /\ (Len(log) > 0 /\ globalMiddlewares # <<>>) => log[1].tier = "g"
  /\ \A i, j \in 1..Len(log) :
       (i < j /\ log[i].hk = log[j].hk /\ log[j].tier = "g") => log[i].tier = "g"

\* a global middleware registered after a terminal route ran before it
C14_Witness ==
  \E i, j \in 1..Len(log) :
    /\ i < j /\ log[i].hk = log[j].hk
    /\ log[i].tier = "g" /\ log[j].tier = "t"
    /\ log[i].route > log[j].route

\* ---------------------------------------------------------------- C15

\* the latest invocation produced a response before it returned
LastResponded == Len(log) > 0 /\ (Calls(Last.prog, {"send"}) \/ Last.prog = <<"retT">>)

HostExactRank(r) ==
  IF r.host # NoHost /\ LowerCase(r.host) = LowerCase(request.host) THEN 0 ELSE 1
DeclaredHostLength(r) == HostLength(r.host)
MethodExactRank(r) == IF r.method = request.method THEN 0 ELSE 1
PathParameters(r) == Cardinality({k \in 1..Len(r.path) : r.path[k] \notin {"/", "a", "b"}})
NamedParameters(r) == Cardinality({k \in 1..Len(r.path) : r.path[k] \in {":id", ":id(a)"}})
RegexSegments(r) == Cardinality({k \in 1..Len(r.path) : r.path[k] \in {":id(a)", "(a)"}})

\* a goes strictly before b in the order of the six keys
StrictlyBefore(a, b) ==
  \/ HostExactRank(a) < HostExactRank(b)
  \/ /\ HostExactRank(a) = HostExactRank(b)
     /\ \/ DeclaredHostLength(a) > DeclaredHostLength(b)
        \/ /\ DeclaredHostLength(a) = DeclaredHostLength(b)
           /\ \/ MethodExactRank(a) < MethodExactRank(b)
              \/ /\ MethodExactRank(a) = MethodExactRank(b)
                 /\ \/ PathParameters(a) < PathParameters(b)
                    \/ /\ PathParameters(a) = PathParameters(b)
                       /\ \/ NamedParameters(a) > NamedParameters(b)
                          \/ /\ NamedParameters(a) = NamedParameters(b)
                             /\ RegexSegments(a) > RegexSegments(b)

\* the candidate tried at place i
Candidate(i) == routes[matchedRouteHandlers[i]]
Places == 1..Len(matchedRouteHandlers)

\* C16: the candidates of a handle() call are the matching terminal routes,
\* each once, and no candidate is tried after one it goes strictly before in
\* the order of the six keys; a candidate whose declared host is the request
\* host up to the case of letters is tried before every candidate without a
\* declared host.
C16_SpecificityOrder ==
  pc # "idle" =>
    /\ {matchedRouteHandlers[i] : i \in Places}
         = {k \in 1..Len(routes) : IsTerminal(routes[k]) /\ Match(routes[k], request)}
    /\ \A i, j \in Places : i # j => matchedRouteHandlers[i] # matchedRouteHandlers[j]
    /\ \A i, j \in Places : i < j => ~StrictlyBefore(Candidate(j), Candidate(i))
    /\ \A i, j \in Places :
         (HostExactRank(Candidate(i)) = 0 /\ Candidate(j).host = NoHost) => i < j

\* the request spells the host in capitals; the route that declares the host
\* was registered last and is tried first, before a host pattern and a
\* route without host
C16_Witness ==
  /\ pc # "idle" /\ request.host = HostApiUpper
  /\ Len(matchedRouteHandlers) = 3
  /\ Candidate(1) = GetAHost /\ matchedRouteHandlers[1] = 3
  /\ Candidate(2) = GetAWild
  /\ Candidate(3) = GetA

\* ---------------------------------------------------------------- C17

\* a and b tie on the host keys and on the method key
TieOnHostAndMethod(a, b) ==
  /\ HostExactRank(a) = HostExactRank(b)
  /\ DeclaredHostLength(a) = DeclaredHostLength(b)
  /\ MethodExactRank(a) = MethodExactRank(b)

\* C17: of two candidates that tie on the host keys and on the method key, the
\* one with fewer path parameters is tried first, wherever the two stand in
\* the route table.
C17_FewerParametersFirst ==
  pc # "idle" =>
    \A i, j \in Places :
      (TieOnHostAndMethod(Candidate(i), Candidate(j))
         /\ PathParameters(Candidate(i)) < PathParameters(Candidate(j))) => i < j

\* GET /:id was registered before GET /a, and GET /a is tried first
C17_Witness ==
  /\ pc # "idle" /\ request.url = UrlA
  /\ routes = <<GetId, GetA>>
  /\ matchedRouteHandlers = <<2, 1>>

\* ---------------------------------------------------------------- C18

\* a and b are equal on all six keys
EquallySpecific(a, b) == ~StrictlyBefore(a, b) /\ ~StrictlyBefore(b, a)

\* C18: candidates that are equal on all six keys are tried in the order in
\* which they were registered.
C18_TiesInRegistrationOrder ==
  pc # "idle" =>
    \A i, j \in Places :
      (i < j /\ EquallySpecific(Candidate(i), Candidate(j)))
        => matchedRouteHandlers[i] < matchedRouteHandlers[j]

\* the two routes for GET /a in either registration order: the one
\* registered first is tried first
C18_Witness ==
  /\ pc # "idle" /\ request.url = UrlA
  /\ routes = <<GetId, GetAOther, GetA>>
  /\ matchedRouteHandlers = <<2, 3, 1>>
  /\ Candidate(1) = GetAOther /\ Candidate(2) = GetA

\* the same two routes registered the other way round
C18_WitnessSwapped ==
  /\ pc # "idle" /\ request.url = UrlA
  /\ routes = <<GetId, GetA, GetAOther>>
  /\ matchedRouteHandlers = <<2, 3, 1>>
  /\ Candidate(1) = GetA /\ Candidate(2) = GetAOther

\* ---------------------------------------------------------------- C19

\* what handle() computes for the request in hand when it finds nothing cached
FreshGlobalMiddlewares == ComputeGlobalMiddlewares(FilterGlobal(routes, 1), request, 1)
FreshRouteMiddlewares == ComputeRouteMiddlewares(request, 1)
FreshRouteHandlers == ComputeRouteHandlers(request)

\* C19: on a route table that no longer changes, a handle() call that finds
\* its key in the caches works with the same global middleware list and the
\* same three selections (routes, callback indexes, order of the candidates)
\* as a call that computes them, so the same callbacks are dispatched in the
\* same order.
C19_CacheHitSameAsMiss ==
  (pc # "idle" /\ request.cached) =>
    /\ globalMiddlewares = FilterGlobal(routes, 1)
    /\ matchedGlobalMiddlewares = FreshGlobalMiddlewares
    /\ matchedRouteMiddlewares = FreshRouteMiddlewares
    /\ matchedRouteHandlers = FreshRouteHandlers

\* the second call with the only key ever used: it ran a global middleware
\* and a terminal callback of the candidate sorted first, and was answered
C19_Witness ==
  /\ pc = "done" /\ request.cached
  /\ Cardinality(DOMAIN routeCacheRouteHandlers) = 1
  /\ matchedRouteHandlers = <<2, 1>>
  /\ Len(log) > 1 /\ log[1].tier = "g" /\ Last.tier = "t"
  /\ result = Matched(2)

\* ---------------------------------------------------------------- C20

\* two cache keys <<host, url, method>> that differ in the query string only
SameButQuery(k1, k2) ==
  k1[1] = k2[1] /\ k1[3] = k2[3] /\ k1[2] # k2[2] /\ StripQuery(k1[2]) = StripQuery(k2[2])

NamesUnique ==
  \A i, j \in 1..Len(routes) :
    (i # j /\ routes[i].name = routes[j].name) => routes[i].name = NoName

\* C21: a setRoute call that throws for a name already taken leaves the route
\* table and the router's lists and caches as they were, so the routes
\* registered earlier remain in their order and match as before; no two
\* routes of the table ever carry the same name.
C21_DuplicateNameThrows ==
  [][/\ registrationError' = DuplicateName =>
          /\ \E i \in 1..Len(routes) : routes[i].name # NoName
          /\ tableVars' = tableVars
     /\ NamesUnique']_vars

\* setRoute threw for a name already taken after a request was served
C21_Witness ==
  /\ registrationError = DuplicateName
  /\ Len(routes) = 3
  /\ \E i \in 1..Len(routes) : routes[i].name = "ws-handler"
  /\ pc = "done"

\* ---------------------------------------------------------------- C22

\* C22: when handle() resolved to undefined and no not-found handler is
\* registered, fetch() answers the request with status 404 Not Found.
C22_UnmatchedIs404 ==
  (answer # NoAnswer /\ routeUsed = Undefined /\ server.notFoundHandlers = 0) =>
    (answer.kind = "response" /\ answer.status = 404 /\ answer.statusText = "Not Found")

\* ---------------------------------------------------------------- C23

\* C23: an upload whose files all come in the declared field is accepted when
\* the field carries at most maxCount files, exactly maxCount included, and
\* is refused only when it carries more.
C23_MaxCountAccepted ==
  (uploadResult # "none" /\ ~upload.foreign /\ upload.filtered = 0) =>
    (uploadResult = "accepted" <=> upload.kept <= upload.maxCount)

\* ---------------------------------------------------------------- C24

\* the body of a request without a Content-Type has been parsed
ParsedWithoutContentType ==
  parsedBody.parsed /\ incoming.header = "" /\ ~incoming.bodyUsed /\ incoming.canHandleUpload

\* C24: for a request without a Content-Type the JSON parser decides the body
\* whenever it accepts the text; the form parser decides it only when the JSON
\* parser refused; and the body is the raw buffer, with Content-Type
\* application/octet-stream, only when both refused.
C24_JsonThenFormThenBuffer ==
  ParsedWithoutContentType =>
    /\ JsonParse(incoming.text) # ParseFails =>
         /\ parsedBody.body = JsonParse(incoming.text)
         /\ parsedBody.header = "application/json"
    /\ JsonParse(incoming.text) = ParseFails =>
         \/ /\ parsedBody.body \in QsParse(incoming.text) \ {ParseFails}
            /\ parsedBody.header = "application/x-www-form-urlencoded"
         \/ /\ ParseFails \in QsParse(incoming.text)
            /\ parsedBody.body = Body("buffer", incoming.text)
            /\ parsedBody.header = "application/octet-stream"

\* a form body without a Content-Type: JSON refused it, the form parser decided
C24_Witness ==
  /\ ParsedWithoutContentType
  /\ incoming.text = "key=value"
  /\ parsedBody.contentType = "form"
  /\ parsedBody.body = Body("form", "{key: 'value'}")

\* a JSON body without a Content-Type, which the form parser would accept too
C24_WitnessJson ==
  /\ ParsedWithoutContentType
  /\ incoming.text = "{\"key\":\"value\"}"
  /\ parsedBody.contentType = "json"

\* ---------------------------------------------------------------- C25

\* the latest invocation returned a falsy value, called no next() and sent
\* nothing
LastGaveNothing == Len(log) > 0 /\ Last.prog = <<"retF">>

\* after such a callback of a global middleware the path middleware of the
\* same pass is not passed over
PathTierAfterGlobal ==
  (/\ LastGaveNothing /\ Last.tier = "g"
   /\ matchedRouteHandlers # <<>> /\ matchedRouteMiddlewares # <<>>
   /\ Invokes)
    => Invoked.tier \in {"g", "p"}

\* after such a callback of a path middleware the callbacks of the candidate run
TerminalAfterPath ==
  (/\ LastGaveNothing /\ Last.tier = "p"
   /\ matchedRouteHandlers # <<>>
   /\ Invokes)
    => Invoked.tier = "t" /\ Invoked.hk = Last.hk

\* such a callback of a terminal route ends the call only as the last
\* callback of the last candidate
NextCandidateAfterTerminal ==
  (/\ LastGaveNothing /\ Last.tier = "t"
   /\ Settles)
    => LastOfLastCandidate

\* C25: a callback that returns a falsy value without next() and without a
\* response neither ends dispatch nor suppresses a tier: after a global
\* middleware the path middleware still runs, after a path middleware the
\* callbacks of the terminal route run, and after a terminal callback other
\* than the last of the last candidate the next candidate is tried.
C25_FalsyReturnPassesOn ==
  [][PathTierAfterGlobal /\ TerminalAfterPath /\ NextCandidateAfterTerminal]_vars

\* ---------------------------------------------------------------- C26

\* the pass for candidate h has invoked a callback of tier t
RanIn(h, t) == \E j \in 1..Len(log) : log[j].hk = h /\ log[j].tier = t

\* this step invokes the first callback of a candidate
EntersCandidate == Invokes /\ Invoked.tier = "t" /\ ~RanIn(Invoked.hk, "t")

\* C26: each candidate terminal route that is reached has the matching global
\* middleware and the matching path middleware run in its own pass before its
\* callbacks: the middleware runs again for every candidate, not only for
\* the first.
C26_MiddlewarePerCandidate ==
  [][EntersCandidate =>
       /\ matchedGlobalMiddlewares # <<>> => RanIn(Invoked.hk, "g")
       /\ matchedRouteMiddlewares # <<>> => RanIn(Invoked.hk, "p")]_vars

\* ---------------------------------------------------------------- C27

\* C27: the list of global-middleware routes is made by the first handle()
\* call, from the routes registered by then, and no later step changes it,
\* a registration after that call included.
C27_GlobalListFrozen ==
  [][/\ (~hasSetGlobalMiddlewares /\ hasSetGlobalMiddlewares') =>
          globalMiddlewares' = FilterGlobal(routes, 1)
     /\ hasSetGlobalMiddlewares =>
          (hasSetGlobalMiddlewares' /\ globalMiddlewares' = globalMiddlewares)]_vars

\* the first call came before any registration; a later call dispatched a route
\* registered after a global middleware, and that middleware was not run
C27_Witness ==
  /\ pc = "done"
  /\ routes = <<GlobalMw, PathMw, GetA>>
  /\ globalMiddlewares = <<>>
  /\ matchedRouteHandlers = <<3>>
  /\ matchedGlobalMiddlewares = <<>>
  /\ Len(log) > 0
  /\ \A j \in 1..Len(log) : log[j].tier # "g"

\* ---------------------------------------------------------------- C28

\* every entry of the cache is kept as it is by this step
EntriesKept(cache, cacheAfter) ==
  \A k \in DOMAIN cache : k \in DOMAIN cacheAfter /\ cacheAfter[k] = cache[k]

\* this step is the start of a handle() call
Handles == NoCallInFlight /\ pc' \notin {"idle", "done"}

\* C28: an entry of a match cache is never changed or removed once written,
\* and a handle() call whose key is cached works with the cached selections
\* as they are, so a route registered after the entry was written is not
\* among the routes dispatched for that key.
C28_CacheEntriesKept ==
  [][/\ EntriesKept(routeCacheGlobalMiddlewares, routeCacheGlobalMiddlewares')
     /\ EntriesKept(routeCacheRouteMiddlewares, routeCacheRouteMiddlewares')
     /\ EntriesKept(routeCacheRouteHandlers, routeCacheRouteHandlers')
     /\ (Handles /\ CacheKey(request') \in DOMAIN routeCacheRouteHandlers) =>
          /\ matchedGlobalMiddlewares' = routeCacheGlobalMiddlewares[CacheKey(request')]
          /\ matchedRouteMiddlewares' = routeCacheRouteMiddlewares[CacheKey(request')]
          /\ matchedRouteHandlers' = routeCacheRouteHandlers[CacheKey(request')]]_vars

\* GET /a was cached when only /:id was registered; after /a was registered, a
\* call with another key found both routes, and the call after it with the
\* first key was still dispatched to /:id alone
C28_Witness ==
  /\ pc = "done"
  /\ Len(routes) >= 2 /\ routes[1] = GetId /\ routes[2] = GetA
  /\ request.url = UrlA
  /\ matchedRouteHandlers = <<1>>
  /\ CacheKey([request EXCEPT !.url = UrlAQuery]) \in DOMAIN routeCacheRouteHandlers
  /\ routeCacheRouteHandlers[CacheKey([request EXCEPT !.url = UrlAQuery])] = <<2, 1>>
  /\ Len(log) > 0
  /\ \A j \in 1..Len(log) : log[j].route # 2

\* ---------------------------------------------------------------- C29

\* the request of a cache key
KeyRequest(key) ==
  [host |-> IF key[1] = "none" THEN NoHost ELSE key[1], url |-> key[2], method |-> key[3]]

\* C29: on a route table that no longer changes, however the handle() calls
\* overlap, every entry of the three caches is the selection that one call
\* alone computes for the key from the table.
C29_CacheAsSequential ==
  hasSetGlobalMiddlewares =>
    /\ globalMiddlewares = FilterGlobal(routes, 1)
    /\ \A key \in DOMAIN routeCacheGlobalMiddlewares :
         routeCacheGlobalMiddlewares[key] =
           ComputeGlobalMiddlewares(FilterGlobal(routes, 1), KeyRequest(key), 1)
    /\ \A key \in DOMAIN routeCacheRouteMiddlewares :
         routeCacheRouteMiddlewares[key] = ComputeRouteMiddlewares(KeyRequest(key), 1)
    /\ \A key \in DOMAIN routeCacheRouteHandlers :
         routeCacheRouteHandlers[key] = ComputeRouteHandlers(KeyRequest(key))

\* a call entered while another was in flight, both keys stored, and the call
\* dispatched to a terminal route
C29_Witness ==
  /\ pc = "done"
  /\ request.overlaps
  /\ Cardinality(DOMAIN routeCacheRouteHandlers) = 2
  /\ matchedRouteHandlers # <<>>
  /\ matchedGlobalMiddlewares # <<>>
  /\ Len(log) > 1

\* ---------------------------------------------------------------- C30

\* C30: when handle() resolves to a MatchResult or to true, the response has
\* been produced: response.headersSent is true at that moment.
C30_ResolvedMeansSent ==
  (pc = "done" /\ result.kind \in {"matched", "true"}) => headersSent

\* ---------------------------------------------------------------- C31

\* the event loop leaves the running call in this step
Switches == AtAwait /\ suspended' = Locals

RECURSIVE CallbacksListed(_, _)
\* the number of callbacks listed by the matched middlewares ms, from i on
CallbacksListed(ms, i) ==
  IF i > Len(ms) THEN 0 ELSE Len(ms[i].callbackIndexes) + CallbacksListed(ms, i + 1)

RECURSIVE CallbacksOfCandidates(_)
\* the number of callbacks of the candidates from h on
CallbacksOfCandidates(h) ==
  IF h > Len(matchedRouteHandlers) THEN 0
  ELSE routes[matchedRouteHandlers[h]].callbacks + CallbacksOfCandidates(h + 1)

\* every matching middleware callback once for each candidate (once when there
\* is no candidate) and every callback of every candidate once
InvocationBound ==
  LET perPass == CallbacksListed(matchedGlobalMiddlewares, 1)
                   + CallbacksListed(matchedRouteMiddlewares, 1)
  IN  IF matchedRouteHandlers = <<>> THEN perPass
      ELSE Len(matchedRouteHandlers) * perPass + CallbacksOfCandidates(1)

\* C32: when every callback invoked calls next() or returns in the end, the
\* promise returned by handle() settles, and by then no more callbacks were
\* invoked than the matching middleware has for each candidate plus the
\* candidates have themselves.
C32_HandleTerminates ==
  /\ [](Len(log) <= InvocationBound)
  /\ (pc \notin {"idle", "done"}) ~> (pc = "done")

\* a call that invoked as many callbacks as the bound allows and settled
C32_Witness ==
  /\ pc = "done"
  /\ Len(matchedRouteHandlers) > 1
  /\ Len(log) = InvocationBound
  /\ Len(log) > 3

\* ---------------------------------------------------------------- C33

\* no terminal route matched, and the latest invocation returned a truthy
\* value without next() and without a response of its own
LastReturnedValue ==
  /\ pc # "idle"
  /\ matchedRouteHandlers = <<>>
  /\ Len(log) > 0
  /\ Last.prog = <<"retT">>

WritingCall ==
  /\ bunRes'.isLongLived = bunRes.isLongLived
  /\ bunRes'.upgradeToWsData = bunRes.upgradeToWsData
  /\ bunRes' # bunRes

\* C34: once headersSent is true, no later call of send, end, json, redirect,
\* sendStatus, sendFile or handleNotFound replaces the native response, and
\* headersSent never becomes false again
C34_WriteOnce ==
  [][HeadersSent(bunRes) =>
       /\ HeadersSent(bunRes')
       /\ WritingCall => bunRes'.response = bunRes.response]_vars

\* ---------------------------------------------------------------- C35

\* C35: with timeout > 0 the promise of getNativeResponse always settles,
\* resolved with the response the callback finds and rejected only when it
\* finds none after more than `timeout` ticks; with timeout 0 or undefined it
\* is never rejected and stays pending until there is a response
C35_GetNativeResponseSettles ==
  /\ [][/\ (poll.state = "pending" /\ poll'.state = "rejected") =>
             /\ EnableTimeout(poll.timeout)
             /\ bunRes.response = NoNative
             /\ poll.elapsedTime > poll.timeout.value
        /\ (poll.state = "pending" /\ poll'.state = "resolved") =>
             /\ bunRes.response # NoNative
             /\ poll'.resolved = bunRes.response
        /\ (poll.state = "pending" /\ bunRes.response = NoNative
              /\ ~EnableTimeout(poll.timeout)) => poll'.state = "pending"
        /\ poll.state \in {"resolved", "rejected"} => poll' = poll]_vars
  /\ (poll.state = "pending" /\ EnableTimeout(poll.timeout))
       ~> (poll.state \in {"resolved", "rejected"})

\* a promise with a timeout was rejected, and one without is still pending
\* after a response was produced for a resolved one
C35_Witness ==
  /\ poll.state = "rejected"
  /\ poll.timeout.value = MaxTimeout
  /\ bunRes.calls > 0

C35_WitnessResolved ==
  /\ poll.state = "resolved"
  /\ ~EnableTimeout(poll.timeout)
  /\ poll.resolved.by = "redirect"

\* ---------------------------------------------------------------- C36

\* C36: when a callback of a terminal route is invoked, request.params and
\* request.subdomains are those of the match of that route against the
\* request, and when handle() resolves to a MatchResult M they are those of M
C36_ParamsOfInvokedRoute ==
  [][/\ (Invokes /\ Invoked.tier = "t") =>
          /\ requestParams' = Invoked.route
          /\ RouteMatch(Invoked.route, request') = Invoked.route
     /\ (pc' = "done" /\ result'.kind = "matched") => requestParams' = result'.route]_vars

\* a second candidate ran its callback after the first one passed on, and
\* handle() resolved to its match
C36_Witness ==
  /\ pc = "done" /\ result.kind = "matched"
  /\ log[Len(log)].tier = "t" /\ log[Len(log)].hk = 2
  /\ requestParams = matchedRouteHandlers[2]

\* ---------------------------------------------------------------- C37

\* C37: however often useBodyParser and registerParserMiddleware are called,
\* the body parsing middleware is registered at most once, and it runs at
\* most once for a request
C37_BodyParserOnce ==
  /\ Len(adapter.registered) <= 1
  /\ adapter.parsed <= 1

\* ---------------------------------------------------------------- C38

\* how often the callback of the handler for the event was invoked
CallbackInvocations(handler) ==
  Cardinality({i \in 1..Len(ws.invoked) :
                 ws.invoked[i] = [handler |-> handler.id, called |-> "callback"]})

\* C38: when an event fires for a client of a path, the callback for the
\* event of every handler registered for the path is invoked exactly once,
\* and a handler registered twice is in the list once
C38_HandlersInvokedOnce ==
  /\ \A path \in WsPaths : \A i, j \in 1..Len(ws.routeHandlers[path]) :
       ws.routeHandlers[path][i] = ws.routeHandlers[path][j] => i = j
  /\ ws.fired.event # "none" =>
       \A i \in 1..Len(ws.fired.handlersArr) :
         ws.fired.event \in ws.fired.handlersArr[i].events =>
           CallbackInvocations(ws.fired.handlersArr[i]) = 1

\* ---------------------------------------------------------------- C39

\* C39: when a multipart handler has failed and every file task has come
\* back, each file that was stored for the request has been removed from
\* storage with force, and the error was rethrown
C39_FailureRemovesStoredFiles ==
  (storage.phase = "thrown" /\ TasksInFlight = {}) =>
    /\ storage.stored = {}
    /\ storage.files = {}

====
